---- MODULE Spec2Model ----
(***************************************************************************)
(* The DID, status-list and schema pallets of qsb-node as one state        *)
(* machine.  Byte strings are sequences of numbers 0..255; the storage     *)
(* maps are functions whose domain is the set of keys present.             *)
(***************************************************************************)
EXTENDS Integers, Sequences, FiniteSets, TLC

VARIABLES DidRecords, StatusLists, Schemas, events, pc, call, result, pre

vars == <<DidRecords, StatusLists, Schemas, events, pc, call, result, pre>>

(***************************************************************************)
(* Bounds of the model.                                                    *)
(***************************************************************************)
\* Bytes of a blake2_256 digest and of an identifier ([u8; 32] in the code).
ID_LEN == 2
\* Bytes of a well-formed ML-DSA-44 public key (1312 in the scheme).
PUBLIC_KEY_LEN == 2
\* Width in bits of the version counters (u64 in the code).
VERSION_BITS == 1
\* Width in bits of list_length and status_index (u32 in the code).
U32_BITS == 5
\* Events (successful calls) in one run.
MaxEvents == 3

RECURSIVE Pow(_, _)
Pow(b, n) == IF n = 0 THEN 1 ELSE b * Pow(b, n - 1)

U64_MAX == Pow(2, VERSION_BITS) - 1
U32_MAX == Pow(2, U32_BITS) - 1

(***************************************************************************)
(* Program constants.                                                      *)
(***************************************************************************)
\* "did:qsb:"
DID_PREFIX == <<100, 105, 100, 58, 113, 115, 98, 58>>
\* "QSB_DID"
DID_MATERIAL_PREFIX == <<81, 83, 66, 95, 68, 73, 68>>
\* "QSB_DID_CREATE"
DID_CREATE_PREFIX == <<81, 83, 66, 95, 68, 73, 68, 95, 67, 82, 69, 65, 84, 69>>
\* "QSB_DID_ADD_KEY"
DID_ADD_KEY_PREFIX == <<81, 83, 66, 95, 68, 73, 68, 95, 65, 68, 68, 95, 75, 69, 89>>
\* "QSB_DID_REVOKE_KEY"
DID_REVOKE_KEY_PREFIX ==
    <<81, 83, 66, 95, 68, 73, 68, 95, 82, 69, 86, 79, 75, 69, 95, 75, 69, 89>>
\* "QSB_DID_DEACTIVATE"
DID_DEACTIVATE_PREFIX ==
    <<81, 83, 66, 95, 68, 73, 68, 95, 68, 69, 65, 67, 84, 73, 86, 65, 84, 69>>
\* "QSB_DID_ADD_SERVICE"
DID_ADD_SERVICE_PREFIX ==
    <<81, 83, 66, 95, 68, 73, 68, 95, 65, 68, 68, 95, 83, 69, 82, 86, 73, 67, 69>>
\* "QSB_DID_REMOVE_SERVICE"
DID_REMOVE_SERVICE_PREFIX ==
    <<81, 83, 66, 95, 68, 73, 68, 95, 82, 69, 77, 79, 86, 69, 95, 83, 69, 82, 86, 73,
      67, 69>>
\* "QSB_DID_SET_METADATA"
DID_SET_METADATA_PREFIX ==
    <<81, 83, 66, 95, 68, 73, 68, 95, 83, 69, 84, 95, 77, 69, 84, 65, 68, 65, 84, 65>>
\* "QSB_DID_REMOVE_METADATA"
DID_REMOVE_METADATA_PREFIX ==
    <<81, 83, 66, 95, 68, 73, 68, 95, 82, 69, 77, 79, 86, 69, 95, 77, 69, 84, 65, 68,
      65, 84, 65>>
\* "QSB_DID_ROTATE_KEY"
DID_ROTATE_KEY_PREFIX ==
    <<81, 83, 66, 95, 68, 73, 68, 95, 82, 79, 84, 65, 84, 69, 95, 75, 69, 89>>
\* A tag of update_roles equal to the one of add_key.
PREFIX_OF_ADD_KEY == DID_ADD_KEY_PREFIX
\* "QSB_DID_UPDATE_ROLES"
DID_UPDATE_ROLES_PREFIX ==
    <<81, 83, 66, 95, 68, 73, 68, 95, 85, 80, 68, 65, 84, 69, 95, 82, 79, 76, 69, 83>>
\* "did:qsb:statuslist:"
STATUSLIST_PREFIX ==
    <<100, 105, 100, 58, 113, 115, 98, 58, 115, 116, 97, 116, 117, 115, 108, 105, 115,
      116, 58>>
\* "did:qsb:statuslist:" (the same bytes again)
STATUSLIST_PREFIX_ALT ==
    <<100, 105, 100, 58, 113, 115, 98, 58, 115, 116, 97, 116, 117, 115, 108, 105, 115,
      116, 58>>
\* "QSB_STATUSLIST"
STATUSLIST_MATERIAL_PREFIX == <<81, 83, 66, 95, 83, 84, 65, 84, 85, 83, 76, 73, 83, 84>>
MIN_LIST_NONCE_BYTES == 16
\* "did:qsb:schema:"
SCHEMA_PREFIX == <<100, 105, 100, 58, 113, 115, 98, 58, 115, 99, 104, 101, 109, 97, 58>>
\* A schema domain tag equal to the one of DIDs.
MATERIAL_PREFIX_OF_DIDS == DID_MATERIAL_PREFIX
\* "QSB_SCHEMA"
SCHEMA_MATERIAL_PREFIX == <<81, 83, 66, 95, 83, 67, 72, 69, 77, 65>>

\* The variants of KeyRole in declaration order; a variant encodes as its index.
KeyRole ==
    <<"Authentication", "AssertionMethod", "KeyAgreement", "CapabilityInvocation",
      "CapabilityDelegation">>

\* The hash of block zero: the chain of scenario 1, whose genesis hash is all zero.
genesis == [i \in 1..ID_LEN |-> 0]

(***************************************************************************)
(* Byte strings.                                                           *)
(***************************************************************************)
starts_with(input, prefix) ==
    /\ Len(input) >= Len(prefix)
    /\ SubSeq(input, 1, Len(prefix)) = prefix

strip_prefix(input, prefix) == SubSeq(input, Len(prefix) + 1, Len(input))

Ok(v) == [ok |-> TRUE, val |-> v]
Err(e) == [ok |-> FALSE, err |-> e]

(***************************************************************************)
(* SCALE encoding of the fields that enter a signing payload.              *)
(***************************************************************************)
\* Compact<u32>: one byte below 64, two little-endian bytes below 2^14.
compact_len(n) ==
    IF n < 64 THEN <<4 * n>>
    ELSE <<(4 * n + 1) % 256, (4 * n + 1) \div 256>>

\* Vec<u8>::encode
encode_bytes(bytes) == compact_len(Len(bytes)) \o bytes

role_index(role) == (CHOOSE i \in 1..Len(KeyRole) : KeyRole[i] = role) - 1

\* Vec<KeyRole>::encode
encode_roles(roles) ==
    compact_len(Len(roles)) \o [i \in 1..Len(roles) |-> role_index(roles[i])]

\* ServiceEndpoint::encode
encode_service(service) ==
    encode_bytes(service.id) \o encode_bytes(service.service_type)
        \o encode_bytes(service.endpoint)

\* MetadataEntry::encode
encode_entry(entry) == encode_bytes(entry.key) \o encode_bytes(entry.value)

(***************************************************************************)
(* blake2_256, as a digest of ID_LEN bytes computed from every byte of its *)
(* input: h := 31 * h + byte + 1 modulo the prime 32749, byte after byte   *)
(* from h = 7.  A run of bytes acts on h as h -> a * h + b; the runs are    *)
(* composed pairwise, which gives the same digest as the byte-by-byte loop. *)
(***************************************************************************)
RECURSIVE digest_step(_, _, _)
digest_step(bytes, lo, hi) ==
    IF lo > hi THEN <<1, 0>>
    ELSE IF lo = hi THEN <<31, bytes[lo] + 1>>
    ELSE LET mid == (lo + hi) \div 2
             l == digest_step(bytes, lo, mid)
             r == digest_step(bytes, mid + 1, hi)
         IN  <<(r[1] * l[1]) % 32749, (r[1] * l[2] + r[2]) % 32749>>

RECURSIVE to_be_bytes(_, _)
to_be_bytes(n, len) ==
    IF len = 0 THEN <<>> ELSE Append(to_be_bytes(n \div 256, len - 1), n % 256)

blake2_256(bytes) ==
    LET step == digest_step(bytes, 1, Len(bytes))
    IN  to_be_bytes((step[1] * 7 + step[2]) % 32749, ID_LEN)

(***************************************************************************)
(* Base58 (the bs58 crate, Bitcoin alphabet).                              *)
(***************************************************************************)
\* "123456789ABCDEFGHJKLMNPQRSTUVWXYZabcdefghijkmnopqrstuvwxyz"
BS58_ALPHABET ==
    <<49, 50, 51, 52, 53, 54, 55, 56, 57, 65, 66, 67, 68, 69, 70, 71, 72, 74, 75, 76,
      77, 78, 80, 81, 82, 83, 84, 85, 86, 87, 88, 89, 90, 97, 98, 99, 100, 101, 102,
      103, 104, 105, 106, 107, 109, 110, 111, 112, 113, 114, 115, 116, 117, 118, 119,
      120, 121, 122>>

RECURSIVE leading(_, _)
leading(bytes, b) ==
    IF bytes # <<>> /\ Head(bytes) = b THEN 1 + leading(Tail(bytes), b) ELSE 0

RECURSIVE from_be_bytes(_, _)
from_be_bytes(bytes, acc) ==
    IF bytes = <<>> THEN acc ELSE from_be_bytes(Tail(bytes), acc * 256 + Head(bytes))

RECURSIVE bs58_digits(_)
bs58_digits(n) ==
    IF n = 0 THEN <<>> ELSE Append(bs58_digits(n \div 58), BS58_ALPHABET[(n % 58) + 1])

\* bs58::encode: a '1' for each leading zero byte, then the number in base 58.
bs58_encode(bytes) ==
    [i \in 1..leading(bytes, 0) |-> BS58_ALPHABET[1]] \o bs58_digits(from_be_bytes(bytes, 0))

bs58_value(c) == (CHOOSE i \in 1..Len(BS58_ALPHABET) : BS58_ALPHABET[i] = c) - 1

RECURSIVE bs58_number(_, _)
bs58_number(chars, acc) ==
    IF chars = <<>> THEN acc
    ELSE bs58_number(Tail(chars), acc * 58 + bs58_value(Head(chars)))

RECURSIVE minimal_be_bytes(_)
minimal_be_bytes(n) ==
    IF n = 0 THEN <<>> ELSE Append(minimal_be_bytes(n \div 256), n % 256)

\* bs58::decode(..).into_vec(): fails on a character outside the alphabet.
bs58_decode(chars) ==
    IF \E i \in 1..Len(chars) : \A j \in 1..Len(BS58_ALPHABET) : BS58_ALPHABET[j] # chars[i]
    THEN Err("bs58")
    ELSE Ok([i \in 1..leading(chars, BS58_ALPHABET[1]) |-> 0]
                \o minimal_be_bytes(bs58_number(chars, 0)))

(***************************************************************************)
(* Storage maps and the helpers of the standard library the pallets use.   *)
(***************************************************************************)
contains_key(map, key) == key \in DOMAIN map

get(map, key) == IF key \in DOMAIN map THEN Ok(map[key]) ELSE Err("None")

insert(map, key, value) ==
    [k \in DOMAIN map \cup {key} |-> IF k = key THEN value ELSE map[k]]

\* StorageMap::mutate, which writes the closure's value back whatever it returns.
mutate(map, key, out) == insert(map, key, out.details)

\* A try_mutate whose closure takes the record out of storage when it leaves a
\* DID deactivated.
try_mutate_taking_deactivated(map, key, out) ==
    IF out.res # "Ok" THEN map
    ELSE IF "deactivated" \in DOMAIN out.details /\ out.details.deactivated
    THEN [k \in DOMAIN map \ {key} |-> map[k]]
    ELSE insert(map, key, out.details)

\* StorageMap::try_mutate: the closure's changes are written only when it returns Ok.
\* `out` is what the closure returned and the value it was left holding.
try_mutate(map, key, out) ==
    IF out.res = "Ok" THEN insert(map, key, out.details) ELSE map

\* u64 addition that is not capped.
unchecked_add(version, n) == version + n

\* u64::wrapping_add.
wrapping_add(version, n) == (version + n) % (U64_MAX + 1)

saturating_add(version, n) ==
    IF version + n > U64_MAX THEN U64_MAX ELSE version + n

\* Iterator::position / find over the elements' answers to the predicate: the
\* first index whose element satisfies it, 0 for None.
position(hits) ==
    IF \E i \in 1..Len(hits) : hits[i]
    THEN CHOOSE i \in 1..Len(hits) : hits[i] /\ \A j \in 1..(i - 1) : ~hits[j]
    ELSE 0

\* Vec::swap_remove: the last element takes the place of the removed one.
swap_remove(seq, index) ==
    [i \in 1..(Len(seq) - 1) |-> IF i = index THEN seq[Len(seq)] ELSE seq[i]]

\* frame_system::ensure_signed: the origin is Signed(account).
ensure_signed(origin) == origin.signed

(***************************************************************************)
(* ML-DSA-44.  A signature is the bytes a signer produced over a message   *)
(* (wf, with the signing key pair named by its public key), or bytes that  *)
(* are no signature at all.  A public key is well formed when it has the   *)
(* scheme's width.                                                         *)
(***************************************************************************)
public_try_from(public_key) == Len(public_key) = PUBLIC_KEY_LEN

signature_try_from(did_signature) == did_signature.wf

mldsa44_verify(sig, payload, pk) == sig.signer = pk /\ sig.msg = payload

sign(pk, msg) == [wf |-> TRUE, signer |-> pk, msg |-> msg]

MalformedSignature == [wf |-> FALSE, signer |-> <<>>, msg |-> <<>>]

(***************************************************************************)
(* pallets/did: helpers.                                                   *)
(***************************************************************************)
verify_signature_with_public_key(did_signature, payload, public_key) ==
    IF ~public_try_from(public_key) THEN "InvalidPublicKey"
    ELSE IF ~signature_try_from(did_signature) THEN "InvalidDidSignature"
    ELSE IF ~mldsa44_verify(did_signature, payload, public_key) THEN "InvalidSignature"
    ELSE "Ok"

\* A verification loop that does not skip revoked keys.
verify_any_key(did_id, did_signature, payload) ==
    LET details == get(DidRecords, did_id) IN
    IF ~details.ok THEN "DidNotFound"
    ELSE IF ~signature_try_from(did_signature) THEN "InvalidDidSignature"
    ELSE IF \E i \in 1..Len(details.val.keys) :
                /\ public_try_from(details.val.keys[i].public_key)
                /\ mldsa44_verify(did_signature, payload, details.val.keys[i].public_key)
         THEN "Ok"
    ELSE "InvalidSignature"

\* verify_did_signature trying only the keys that hold the Authentication role.
verify_did_signature_by_role(did_id, did_signature, payload) ==
    LET details == get(DidRecords, did_id) IN
    IF ~details.ok THEN "DidNotFound"
    ELSE IF ~signature_try_from(did_signature) THEN "InvalidDidSignature"
    ELSE IF \E i \in 1..Len(details.val.keys) :
                /\ ~details.val.keys[i].revoked
                /\ \E r \in 1..Len(details.val.keys[i].roles) :
                       details.val.keys[i].roles[r] = "Authentication"
                /\ public_try_from(details.val.keys[i].public_key)
                /\ mldsa44_verify(did_signature, payload, details.val.keys[i].public_key)
         THEN "Ok"
    ELSE "InvalidSignature"

\* verify_did_signature trying the revoked keys too.
verify_did_signature_trying_revoked(did_id, did_signature, payload) ==
    LET details == get(DidRecords, did_id) IN
    IF ~details.ok THEN "DidNotFound"
    ELSE IF ~signature_try_from(did_signature) THEN "InvalidDidSignature"
    ELSE IF \E i \in 1..Len(details.val.keys) :
                /\ public_try_from(details.val.keys[i].public_key)
                /\ mldsa44_verify(did_signature, payload, details.val.keys[i].public_key)
         THEN "Ok"
    ELSE "InvalidSignature"

verify_did_signature(did_id, did_signature, payload) ==
    LET details == get(DidRecords, did_id) IN
    IF ~details.ok THEN "DidNotFound"
    ELSE IF ~signature_try_from(did_signature) THEN "InvalidDidSignature"
    ELSE IF \E i \in 1..Len(details.val.keys) :
                /\ ~details.val.keys[i].revoked
                /\ public_try_from(details.val.keys[i].public_key)
                /\ mldsa44_verify(did_signature, payload, details.val.keys[i].public_key)
         THEN "Ok"
    ELSE "InvalidSignature"

\* The bytes did_id_from_public_key hashes.
did_material(public_key) == DID_MATERIAL_PREFIX \o genesis \o public_key

did_id_from_public_key(public_key) == blake2_256(did_material(public_key))

did_string_from_did_id(did_id) == DID_PREFIX \o bs58_encode(did_id)

decode_did_id(input) ==
    LET did_id_bytes ==
            IF starts_with(input, DID_PREFIX) THEN strip_prefix(input, DID_PREFIX)
            ELSE input
        decoded == bs58_decode(did_id_bytes)
    IN  IF ~decoded.ok THEN Err("InvalidDidId")
        ELSE IF Len(decoded.val) # ID_LEN THEN Err("InvalidDidId")
        ELSE Ok(decoded.val)

get_did(did_id) ==
    LET id == decode_did_id(did_id) IN
    IF ~id.ok THEN Err(id.err)
    ELSE IF ~contains_key(DidRecords, id.val) THEN Err("DidNotFound")
    ELSE Ok(DidRecords[id.val])

(***************************************************************************)
(* pallets/did: the signing payloads.                                      *)
(***************************************************************************)
create_did_payload(public_key) == DID_CREATE_PREFIX \o encode_bytes(public_key)

\* add_key's payload built from the canonical text of the decoded identifier
\* instead of the bytes the caller supplied.
add_key_payload_canonical(did_id, public_key, roles) ==
    LET decoded == decode_did_id(did_id)
        did == IF decoded.ok THEN did_string_from_did_id(decoded.val) ELSE did_id
    IN  DID_ADD_KEY_PREFIX \o encode_bytes(did) \o encode_bytes(public_key)
            \o encode_roles(roles)

add_key_payload(did_id, public_key, roles) ==
    DID_ADD_KEY_PREFIX \o encode_bytes(did_id) \o encode_bytes(public_key)
        \o encode_roles(roles)

revoke_key_payload(did_id, public_key) ==
    DID_REVOKE_KEY_PREFIX \o encode_bytes(did_id) \o encode_bytes(public_key)

deactivate_did_payload(did_id) == DID_DEACTIVATE_PREFIX \o encode_bytes(did_id)

add_service_payload(did_id, service) ==
    DID_ADD_SERVICE_PREFIX \o encode_bytes(did_id) \o encode_service(service)

remove_service_payload(did_id, service_id) ==
    DID_REMOVE_SERVICE_PREFIX \o encode_bytes(did_id) \o encode_bytes(service_id)

set_metadata_payload(did_id, entry) ==
    DID_SET_METADATA_PREFIX \o encode_bytes(did_id) \o encode_entry(entry)

remove_metadata_payload(did_id, key) ==
    DID_REMOVE_METADATA_PREFIX \o encode_bytes(did_id) \o encode_bytes(key)

rotate_key_payload(did_id, old_public_key, new_public_key, roles) ==
    DID_ROTATE_KEY_PREFIX \o encode_bytes(did_id) \o encode_bytes(old_public_key)
        \o encode_bytes(new_public_key) \o encode_roles(roles)

update_roles_payload(did_id, public_key, roles) ==
    DID_UPDATE_ROLES_PREFIX \o encode_bytes(did_id) \o encode_bytes(public_key)
        \o encode_roles(roles)

(***************************************************************************)
(* pallets/did: the closures handed to DidRecords::try_mutate.  Each takes *)
(* the stored value (maybe_details) and returns its result with the value  *)
(* as the closure left it.                                                 *)
(***************************************************************************)
has_key(details, public_key) ==
    \E i \in 1..Len(details.keys) : details.keys[i].public_key = public_key

find_key(details, public_key) ==
    position([i \in 1..Len(details.keys) |-> details.keys[i].public_key = public_key])

bump_version(details) ==
    [details EXCEPT !.version = saturating_add(details.version, 1)]

\* add_key's closure without its ensure!(!details.deactivated).
add_key_closure_unguarded(maybe_details, public_key, roles) ==
    IF ~maybe_details.ok THEN [res |-> "DidNotFound", details |-> maybe_details]
    ELSE LET details == maybe_details.val IN
    IF has_key(details, public_key)
    THEN [res |-> "KeyAlreadyExists", details |-> details]
    ELSE LET pushed == [details EXCEPT !.keys =
                 Append(@, [public_key |-> public_key, roles |-> roles, revoked |-> FALSE])]
         IN  [res |-> "Ok", details |-> bump_version(pushed)]

add_key_closure(maybe_details, public_key, roles) ==
    IF ~maybe_details.ok THEN [res |-> "DidNotFound", details |-> maybe_details]
    ELSE LET details == maybe_details.val IN
    IF details.deactivated THEN [res |-> "DidDeactivated", details |-> details]
    ELSE IF has_key(details, public_key)
    THEN [res |-> "KeyAlreadyExists", details |-> details]
    ELSE LET pushed == [details EXCEPT !.keys =
                 Append(@, [public_key |-> public_key, roles |-> roles, revoked |-> FALSE])]
         IN  [res |-> "Ok", details |-> bump_version(pushed)]

\* revoke_key's closure looking the key up before it looks at details.deactivated.
revoke_key_closure_lookup_first(maybe_details, public_key) ==
    IF ~maybe_details.ok THEN [res |-> "DidNotFound", details |-> maybe_details]
    ELSE LET details == maybe_details.val
             i == find_key(details, public_key)
         IN
    IF i = 0 THEN [res |-> "KeyNotFound", details |-> details]
    ELSE IF details.deactivated THEN [res |-> "DidDeactivated", details |-> details]
    ELSE IF details.keys[i].revoked THEN [res |-> "KeyAlreadyRevoked", details |-> details]
    ELSE [res |-> "Ok", details |-> bump_version([details EXCEPT !.keys[i].revoked = TRUE])]

revoke_key_closure(maybe_details, public_key) ==
    IF ~maybe_details.ok THEN [res |-> "DidNotFound", details |-> maybe_details]
    ELSE LET details == maybe_details.val
             i == find_key(details, public_key)
         IN
    IF details.deactivated THEN [res |-> "DidDeactivated", details |-> details]
    ELSE IF i = 0 THEN [res |-> "KeyNotFound", details |-> details]
    ELSE IF details.keys[i].revoked THEN [res |-> "KeyAlreadyRevoked", details |-> details]
    ELSE LET marked == [details EXCEPT !.keys[i].revoked = TRUE]
         IN  [res |-> "Ok", details |-> bump_version(marked)]

\* deactivate_did's closure emptying the services of the DID it deactivates.
deactivate_did_closure_dropping_services(maybe_details) ==
    IF ~maybe_details.ok THEN [res |-> "DidNotFound", details |-> maybe_details]
    ELSE LET details == maybe_details.val IN
    IF details.deactivated THEN [res |-> "DidDeactivated", details |-> details]
    ELSE [res |-> "Ok",
          details |-> bump_version([details EXCEPT !.deactivated = TRUE,
                                                   !.services = <<>>])]

deactivate_did_closure(maybe_details) ==
    IF ~maybe_details.ok THEN [res |-> "DidNotFound", details |-> maybe_details]
    ELSE LET details == maybe_details.val IN
    IF details.deactivated THEN [res |-> "DidDeactivated", details |-> details]
    ELSE [res |-> "Ok", details |-> bump_version([details EXCEPT !.deactivated = TRUE])]

\* add_service's closure without the search for the id.
add_service_closure_appending(maybe_details, service) ==
    IF ~maybe_details.ok THEN [res |-> "DidNotFound", details |-> maybe_details]
    ELSE LET details == maybe_details.val IN
    IF details.deactivated THEN [res |-> "DidDeactivated", details |-> details]
    ELSE [res |-> "Ok",
          details |-> bump_version([details EXCEPT !.services = Append(@, service)])]

add_service_closure(maybe_details, service) ==
    IF ~maybe_details.ok THEN [res |-> "DidNotFound", details |-> maybe_details]
    ELSE LET details == maybe_details.val IN
    IF details.deactivated THEN [res |-> "DidDeactivated", details |-> details]
    ELSE IF \E i \in 1..Len(details.services) : details.services[i].id = service.id
    THEN [res |-> "ServiceAlreadyExists", details |-> details]
    ELSE [res |-> "Ok",
          details |-> bump_version([details EXCEPT !.services = Append(@, service)])]

remove_service_closure(maybe_details, service_id) ==
    IF ~maybe_details.ok THEN [res |-> "DidNotFound", details |-> maybe_details]
    ELSE LET details == maybe_details.val
             index == position([i \in 1..Len(details.services) |->
                                    details.services[i].id = service_id])
         IN
    IF details.deactivated THEN [res |-> "DidDeactivated", details |-> details]
    ELSE IF index = 0 THEN [res |-> "ServiceNotFound", details |-> details]
    ELSE [res |-> "Ok",
          details |-> bump_version([details EXCEPT !.services = swap_remove(@, index)])]

\* set_metadata's closure moving an entry it overwrites to the end.
set_metadata_closure_reinserting(maybe_details, entry) ==
    IF ~maybe_details.ok THEN [res |-> "DidNotFound", details |-> maybe_details]
    ELSE LET details == maybe_details.val
             kept == SelectSeq(details.metadata, LAMBDA e : e.key # entry.key)
         IN
    IF details.deactivated THEN [res |-> "DidDeactivated", details |-> details]
    ELSE [res |-> "Ok",
          details |-> bump_version([details EXCEPT !.metadata = Append(kept, entry)])]

set_metadata_closure(maybe_details, entry) ==
    IF ~maybe_details.ok THEN [res |-> "DidNotFound", details |-> maybe_details]
    ELSE LET details == maybe_details.val
             existing == position([i \in 1..Len(details.metadata) |->
                                       details.metadata[i].key = entry.key])
         IN
    IF details.deactivated THEN [res |-> "DidDeactivated", details |-> details]
    ELSE IF existing # 0
    THEN [res |-> "Ok",
          details |-> bump_version(
              [details EXCEPT !.metadata[existing].value = entry.value])]
    ELSE [res |-> "Ok",
          details |-> bump_version([details EXCEPT !.metadata = Append(@, entry)])]

remove_metadata_closure(maybe_details, key) ==
    IF ~maybe_details.ok THEN [res |-> "DidNotFound", details |-> maybe_details]
    ELSE LET details == maybe_details.val
             index == position([i \in 1..Len(details.metadata) |->
                                    details.metadata[i].key = key])
         IN
    IF details.deactivated THEN [res |-> "DidDeactivated", details |-> details]
    ELSE IF index = 0 THEN [res |-> "MetadataNotFound", details |-> details]
    ELSE [res |-> "Ok",
          details |-> bump_version([details EXCEPT !.metadata = swap_remove(@, index)])]

\* rotate_key's closure without the check that new_public_key is not already held.
rotate_key_closure_unchecked(maybe_details, old_public_key, new_public_key, roles) ==
    IF ~maybe_details.ok THEN [res |-> "DidNotFound", details |-> maybe_details]
    ELSE LET details == maybe_details.val
             i == find_key(details, old_public_key)
         IN
    IF details.deactivated THEN [res |-> "DidDeactivated", details |-> details]
    ELSE IF i = 0 THEN [res |-> "KeyNotFound", details |-> details]
    ELSE IF details.keys[i].revoked THEN [res |-> "KeyAlreadyRevoked", details |-> details]
    ELSE LET marked == [details EXCEPT !.keys[i].revoked = TRUE]
             pushed == [marked EXCEPT !.keys =
                 Append(@, [public_key |-> new_public_key, roles |-> roles,
                            revoked |-> FALSE])]
         IN  [res |-> "Ok", details |-> bump_version(pushed)]

\* rotate_key's closure appending the new key and leaving the old one live.
rotate_key_closure_keeps_old(maybe_details, old_public_key, new_public_key, roles) ==
    IF ~maybe_details.ok THEN [res |-> "DidNotFound", details |-> maybe_details]
    ELSE LET details == maybe_details.val
             i == find_key(details, old_public_key)
         IN
    IF details.deactivated THEN [res |-> "DidDeactivated", details |-> details]
    ELSE IF has_key(details, new_public_key)
    THEN [res |-> "KeyAlreadyExists", details |-> details]
    ELSE IF i = 0 THEN [res |-> "KeyNotFound", details |-> details]
    ELSE IF details.keys[i].revoked THEN [res |-> "KeyAlreadyRevoked", details |-> details]
    ELSE LET pushed == [details EXCEPT !.keys =
                 Append(@, [public_key |-> new_public_key, roles |-> roles,
                            revoked |-> FALSE])]
         IN  [res |-> "Ok", details |-> bump_version(pushed)]

\* rotate_key's closure writing the new key over the old one.
rotate_key_closure_in_place(maybe_details, old_public_key, new_public_key, roles) ==
    IF ~maybe_details.ok THEN [res |-> "DidNotFound", details |-> maybe_details]
    ELSE LET details == maybe_details.val
             i == find_key(details, old_public_key)
         IN
    IF details.deactivated THEN [res |-> "DidDeactivated", details |-> details]
    ELSE IF has_key(details, new_public_key)
    THEN [res |-> "KeyAlreadyExists", details |-> details]
    ELSE IF i = 0 THEN [res |-> "KeyNotFound", details |-> details]
    ELSE IF details.keys[i].revoked THEN [res |-> "KeyAlreadyRevoked", details |-> details]
    ELSE [res |-> "Ok",
          details |-> bump_version(
              [details EXCEPT !.keys[i] = [public_key |-> new_public_key,
                                           roles |-> roles, revoked |-> FALSE]])]

rotate_key_closure(maybe_details, old_public_key, new_public_key, roles) ==
    IF ~maybe_details.ok THEN [res |-> "DidNotFound", details |-> maybe_details]
    ELSE LET details == maybe_details.val
             i == find_key(details, old_public_key)
         IN
    IF details.deactivated THEN [res |-> "DidDeactivated", details |-> details]
    ELSE IF has_key(details, new_public_key)
    THEN [res |-> "KeyAlreadyExists", details |-> details]
    ELSE IF i = 0 THEN [res |-> "KeyNotFound", details |-> details]
    ELSE IF details.keys[i].revoked THEN [res |-> "KeyAlreadyRevoked", details |-> details]
    ELSE LET marked == [details EXCEPT !.keys[i].revoked = TRUE]
             pushed == [marked EXCEPT !.keys =
                 Append(@, [public_key |-> new_public_key, roles |-> roles,
                            revoked |-> FALSE])]
         IN  [res |-> "Ok", details |-> bump_version(pushed)]

update_roles_closure(maybe_details, public_key, roles) ==
    IF ~maybe_details.ok THEN [res |-> "DidNotFound", details |-> maybe_details]
    ELSE LET details == maybe_details.val
             i == find_key(details, public_key)
         IN
    IF details.deactivated THEN [res |-> "DidDeactivated", details |-> details]
    ELSE IF i = 0 THEN [res |-> "KeyNotFound", details |-> details]
    ELSE IF details.keys[i].revoked THEN [res |-> "KeyAlreadyRevoked", details |-> details]
    ELSE [res |-> "Ok", details |-> bump_version([details EXCEPT !.keys[i].roles = roles])]

(***************************************************************************)
(* pallets/did: the calls.  Each gives the DispatchResult, the DidRecords  *)
(* map the call leaves and the events it deposits.                         *)
(***************************************************************************)
did_failed(error) == [result |-> error, records |-> DidRecords, events |-> <<>>]

\* What each of the nine calls on an existing DID does before try_mutate:
\* ensure_signed, decode the identifier, verify the signature against the stored
\* keys.  "Ok", or the error the call returns.
did_authorized(origin, did_id, did_signature, payload) ==
    LET id == decode_did_id(did_id) IN
    IF ~ensure_signed(origin) THEN "BadOrigin"
    ELSE IF ~id.ok THEN id.err
    ELSE verify_did_signature(id.val, did_signature, payload)

\* What each of them does after it: `out` is what the closure returned under
\* try_mutate; the event is deposited when it returned Ok.
did_committed(did_id, out, event) ==
    LET stored == try_mutate(DidRecords, did_id, out) IN
    IF out.res # "Ok" THEN [result |-> out.res, records |-> stored, events |-> <<>>]
    ELSE [result |-> "Ok", records |-> stored, events |-> <<event>>]

\* create_did inserting the record without verifying the signature.
create_did_call_unverified(origin, public_key, did_signature) ==
    LET did_id == did_id_from_public_key(public_key)
        details == [version |-> 0, deactivated |-> FALSE,
                    keys |-> <<[public_key |-> public_key,
                                roles |-> <<"Authentication">>, revoked |-> FALSE]>>,
                    services |-> <<>>, metadata |-> <<>>]
    IN
    IF ~ensure_signed(origin) THEN did_failed("BadOrigin")
    ELSE IF contains_key(DidRecords, did_id) THEN did_failed("DidAlreadyExists")
    ELSE [result |-> "Ok", records |-> insert(DidRecords, did_id, details),
          events |-> <<[name |-> "DidCreated", did |-> did_string_from_did_id(did_id)]>>]

\* create_did verifying the signature before it looks for an existing record.
create_did_call_verify_first(origin, public_key, did_signature) ==
    LET did_id == did_id_from_public_key(public_key)
        payload == create_did_payload(public_key)
        verified == verify_signature_with_public_key(did_signature, payload, public_key)
        details == [version |-> 0, deactivated |-> FALSE,
                    keys |-> <<[public_key |-> public_key,
                                roles |-> <<"Authentication">>, revoked |-> FALSE]>>,
                    services |-> <<>>, metadata |-> <<>>]
    IN
    IF ~ensure_signed(origin) THEN did_failed("BadOrigin")
    ELSE IF verified # "Ok" THEN did_failed(verified)
    ELSE IF contains_key(DidRecords, did_id) THEN did_failed("DidAlreadyExists")
    ELSE [result |-> "Ok", records |-> insert(DidRecords, did_id, details),
          events |-> <<[name |-> "DidCreated", did |-> did_string_from_did_id(did_id)]>>]

create_did_call(origin, public_key, did_signature) ==
    LET did_id == did_id_from_public_key(public_key)
        payload == create_did_payload(public_key)
        verified == verify_signature_with_public_key(did_signature, payload, public_key)
        details == [version |-> 0, deactivated |-> FALSE,
                    keys |-> <<[public_key |-> public_key,
                                roles |-> <<"Authentication">>, revoked |-> FALSE]>>,
                    services |-> <<>>, metadata |-> <<>>]
    IN
    IF ~ensure_signed(origin) THEN did_failed("BadOrigin")
    ELSE IF contains_key(DidRecords, did_id) THEN did_failed("DidAlreadyExists")
    ELSE IF verified # "Ok" THEN did_failed(verified)
    ELSE [result |-> "Ok", records |-> insert(DidRecords, did_id, details),
          events |-> <<[name |-> "DidCreated", did |-> did_string_from_did_id(did_id)]>>]

add_key_call(origin, did_id, public_key, roles, did_signature) ==
    LET payload == add_key_payload(did_id, public_key, roles)
        authorized == did_authorized(origin, did_id, did_signature, payload)
        id == decode_did_id(did_id).val
        did == did_string_from_did_id(id)
    IN  IF authorized # "Ok" THEN did_failed(authorized)
        ELSE did_committed(
            id,
            add_key_closure(get(DidRecords, id), public_key, roles),
            [name |-> "KeyAdded", did |-> did, public_key |-> public_key])

revoke_key_call(origin, did_id, public_key, did_signature) ==
    LET payload == revoke_key_payload(did_id, public_key)
        authorized == did_authorized(origin, did_id, did_signature, payload)
        id == decode_did_id(did_id).val
        did == did_string_from_did_id(id)
    IN  IF authorized # "Ok" THEN did_failed(authorized)
        ELSE did_committed(
            id,
            revoke_key_closure(get(DidRecords, id), public_key),
            [name |-> "KeyRevoked", did |-> did, public_key |-> public_key])

deactivate_did_call(origin, did_id, did_signature) ==
    LET payload == deactivate_did_payload(did_id)
        authorized == did_authorized(origin, did_id, did_signature, payload)
        id == decode_did_id(did_id).val
        did == did_string_from_did_id(id)
    IN  IF authorized # "Ok" THEN did_failed(authorized)
        ELSE did_committed(
            id,
            deactivate_did_closure(get(DidRecords, id)),
            [name |-> "DidDeactivated", did |-> did])

add_service_call(origin, did_id, service, did_signature) ==
    LET payload == add_service_payload(did_id, service)
        authorized == did_authorized(origin, did_id, did_signature, payload)
        id == decode_did_id(did_id).val
        did == did_string_from_did_id(id)
    IN  IF authorized # "Ok" THEN did_failed(authorized)
        ELSE did_committed(
            id,
            add_service_closure(get(DidRecords, id), service),
            [name |-> "ServiceAdded", did |-> did, service_id |-> service.id])

remove_service_call(origin, did_id, service_id, did_signature) ==
    LET payload == remove_service_payload(did_id, service_id)
        authorized == did_authorized(origin, did_id, did_signature, payload)
        id == decode_did_id(did_id).val
        did == did_string_from_did_id(id)
    IN  IF authorized # "Ok" THEN did_failed(authorized)
        ELSE did_committed(
            id,
            remove_service_closure(get(DidRecords, id), service_id),
            [name |-> "ServiceRemoved", did |-> did, service_id |-> service_id])

\* set_metadata whose signing payload ends with the version of the record, so
\* that a signature is good for one version only.
set_metadata_call_versioned(origin, did_id, entry, did_signature) ==
    LET decoded == decode_did_id(did_id)
        stored == IF decoded.ok THEN get(DidRecords, decoded.val) ELSE Err("None")
        nonce == IF stored.ok THEN <<stored.val.version>> ELSE <<>>
        payload == set_metadata_payload(did_id, entry) \o nonce
        authorized == did_authorized(origin, did_id, did_signature, payload)
        id == decode_did_id(did_id).val
        did == did_string_from_did_id(id)
    IN  IF authorized # "Ok" THEN did_failed(authorized)
        ELSE did_committed(
            id,
            set_metadata_closure(get(DidRecords, id), entry),
            [name |-> "MetadataSet", did |-> did, key |-> entry.key])

set_metadata_call(origin, did_id, entry, did_signature) ==
    LET payload == set_metadata_payload(did_id, entry)
        authorized == did_authorized(origin, did_id, did_signature, payload)
        id == decode_did_id(did_id).val
        did == did_string_from_did_id(id)
    IN  IF authorized # "Ok" THEN did_failed(authorized)
        ELSE did_committed(
            id,
            set_metadata_closure(get(DidRecords, id), entry),
            [name |-> "MetadataSet", did |-> did, key |-> entry.key])

remove_metadata_call(origin, did_id, key, did_signature) ==
    LET payload == remove_metadata_payload(did_id, key)
        authorized == did_authorized(origin, did_id, did_signature, payload)
        id == decode_did_id(did_id).val
        did == did_string_from_did_id(id)
    IN  IF authorized # "Ok" THEN did_failed(authorized)
        ELSE did_committed(
            id,
            remove_metadata_closure(get(DidRecords, id), key),
            [name |-> "MetadataRemoved", did |-> did, key |-> key])

rotate_key_call(origin, did_id, old_public_key, new_public_key, roles, did_signature) ==
    LET payload == rotate_key_payload(did_id, old_public_key, new_public_key, roles)
        authorized == did_authorized(origin, did_id, did_signature, payload)
        id == decode_did_id(did_id).val
        did == did_string_from_did_id(id)
    IN  IF authorized # "Ok" THEN did_failed(authorized)
        ELSE did_committed(
            id,
            rotate_key_closure(get(DidRecords, id), old_public_key, new_public_key,
                                    roles),
            [name |-> "KeyRotated", did |-> did,
             old_public_key |-> old_public_key, new_public_key |-> new_public_key])

update_roles_call(origin, did_id, public_key, roles, did_signature) ==
    LET payload == update_roles_payload(did_id, public_key, roles)
        authorized == did_authorized(origin, did_id, did_signature, payload)
        id == decode_did_id(did_id).val
        did == did_string_from_did_id(id)
    IN  IF authorized # "Ok" THEN did_failed(authorized)
        ELSE did_committed(
            id,
            update_roles_closure(get(DidRecords, id), public_key, roles),
            [name |-> "RolesUpdated", did |-> did, public_key |-> public_key])

(***************************************************************************)
(* pallets/revocation-list.                                                *)
(***************************************************************************)
\* The bytes status_list_id_from_parts hashes.
status_list_material(issuer_did, list_nonce) ==
    STATUSLIST_MATERIAL_PREFIX \o genesis \o issuer_did \o list_nonce

status_list_id_from_parts(issuer_did, list_nonce) ==
    blake2_256(status_list_material(issuer_did, list_nonce))

status_list_string_from_id(status_list_id) ==
    STATUSLIST_PREFIX \o bs58_encode(status_list_id)

decode_status_list_id(input) ==
    LET status_list_id_bytes ==
            IF starts_with(input, STATUSLIST_PREFIX)
            THEN strip_prefix(input, STATUSLIST_PREFIX)
            ELSE IF starts_with(input, STATUSLIST_PREFIX_ALT)
            THEN strip_prefix(input, STATUSLIST_PREFIX_ALT)
            ELSE input
        decoded == bs58_decode(status_list_id_bytes)
    IN  IF ~decoded.ok THEN Err("InvalidStatusListId")
        ELSE IF Len(decoded.val) # ID_LEN THEN Err("InvalidStatusListId")
        ELSE Ok(decoded.val)

get_status_list(status_list_id) ==
    LET id == decode_status_list_id(status_list_id) IN
    IF ~id.ok THEN Err(id.err)
    ELSE IF ~contains_key(StatusLists, id.val) THEN Err("StatusListNotFound")
    ELSE Ok(StatusLists[id.val])

\* u32::checked_add
checked_add(a, b) == IF a + b > U32_MAX THEN Err("overflow") ELSE Ok(a + b)

bit_is_set(byte, bit_index) == (byte \div Pow(2, bit_index)) % 2 = 1

\* The mask counted from the most significant bit: byte | (0x80u8 >> bit_index)
or_mask_msb_first(byte, bit_index) ==
    IF bit_is_set(byte, 7 - bit_index) THEN byte ELSE byte + Pow(2, 7 - bit_index)

\* byte | (1u8 << bit_index)
or_mask(byte, bit_index) ==
    IF bit_is_set(byte, bit_index) THEN byte ELSE byte + Pow(2, bit_index)

\* byte & !(1u8 << bit_index)
and_not_mask(byte, bit_index) ==
    IF bit_is_set(byte, bit_index) THEN byte - Pow(2, bit_index) ELSE byte

\* set_status without the bound on status_index: an index past the end of the
\* bitmap is accepted and writes nothing.
set_status_closure_unbounded(maybe_record, issuer_did, status_index, revoked) ==
    IF ~maybe_record.ok THEN [res |-> "StatusListNotFound", details |-> maybe_record]
    ELSE LET record == maybe_record.val
             byte_index == status_index \div 8
             bit_index == status_index % 8
         IN
    IF record.issuer_did # issuer_did THEN [res |-> "IssuerMismatch", details |-> record]
    ELSE LET written ==
                 IF byte_index + 1 \notin DOMAIN record.bitmap THEN record
                 ELSE IF revoked
                 THEN [record EXCEPT !.bitmap[byte_index + 1] = or_mask(@, bit_index)]
                 ELSE [record EXCEPT !.bitmap[byte_index + 1] = and_not_mask(@, bit_index)]
         IN  [res |-> "Ok",
              details |-> [written EXCEPT !.version = saturating_add(@, 1)]]

set_status_closure(maybe_record, issuer_did, status_index, revoked) ==
    IF ~maybe_record.ok THEN [res |-> "StatusListNotFound", details |-> maybe_record]
    ELSE LET record == maybe_record.val
             bit_count == Len(record.bitmap) * 8
             byte_index == status_index \div 8
             bit_index == status_index % 8
         IN
    IF record.issuer_did # issuer_did THEN [res |-> "IssuerMismatch", details |-> record]
    ELSE IF ~(status_index < bit_count)
    THEN [res |-> "StatusIndexOutOfBounds", details |-> record]
    ELSE LET written ==
                 IF revoked
                 THEN [record EXCEPT !.bitmap[byte_index + 1] = or_mask(@, bit_index)]
                 ELSE [record EXCEPT !.bitmap[byte_index + 1] = and_not_mask(@, bit_index)]
         IN  [res |-> "Ok",
              details |-> [written EXCEPT !.version = saturating_add(@, 1)]]

list_failed(error) == [result |-> error, records |-> StatusLists, events |-> <<>>]

\* create_status_list giving every list a bitmap of one byte at least.
create_status_list_call_one_byte_at_least(origin, issuer_did, list_nonce, list_length, did_signature) ==
    LET status_list_id == status_list_id_from_parts(issuer_did, list_nonce)
        sum == checked_add(list_length, 7)
    IN
    IF ~ensure_signed(origin) THEN list_failed("BadOrigin")
    ELSE IF ~(Len(list_nonce) >= MIN_LIST_NONCE_BYTES) THEN list_failed("InvalidListNonce")
    ELSE IF contains_key(StatusLists, status_list_id)
    THEN list_failed("StatusListAlreadyExists")
    ELSE IF ~sum.ok THEN list_failed("StatusIndexOutOfBounds")
    ELSE LET bitmap_len == IF sum.val \div 8 = 0 THEN 1 ELSE sum.val \div 8
             record == [version |-> 0, issuer_did |-> issuer_did,
                        list_nonce |-> list_nonce,
                        bitmap |-> [i \in 1..bitmap_len |-> 0]]
         IN  [result |-> "Ok",
              records |-> insert(StatusLists, status_list_id, record),
              events |-> <<[name |-> "StatusListCreated",
                            status_list_id |-> status_list_string_from_id(status_list_id),
                            issuer_did |-> issuer_did]>>]

\* create_status_list sizing the bitmap with list_length / 8, rounded down.
create_status_list_call_rounded_down(origin, issuer_did, list_nonce, list_length, did_signature) ==
    LET status_list_id == status_list_id_from_parts(issuer_did, list_nonce)
        sum == checked_add(list_length, 7)
    IN
    IF ~ensure_signed(origin) THEN list_failed("BadOrigin")
    ELSE IF ~(Len(list_nonce) >= MIN_LIST_NONCE_BYTES) THEN list_failed("InvalidListNonce")
    ELSE IF contains_key(StatusLists, status_list_id)
    THEN list_failed("StatusListAlreadyExists")
    ELSE IF ~sum.ok THEN list_failed("StatusIndexOutOfBounds")
    ELSE LET bitmap_len == list_length \div 8
             record == [version |-> 0, issuer_did |-> issuer_did,
                        list_nonce |-> list_nonce,
                        bitmap |-> [i \in 1..bitmap_len |-> 0]]
         IN  [result |-> "Ok",
              records |-> insert(StatusLists, status_list_id, record),
              events |-> <<[name |-> "StatusListCreated",
                            status_list_id |-> status_list_string_from_id(status_list_id),
                            issuer_did |-> issuer_did]>>]

create_status_list_call(origin, issuer_did, list_nonce, list_length, did_signature) ==
    LET status_list_id == status_list_id_from_parts(issuer_did, list_nonce)
        sum == checked_add(list_length, 7)
    IN
    IF ~ensure_signed(origin) THEN list_failed("BadOrigin")
    ELSE IF ~(Len(list_nonce) >= MIN_LIST_NONCE_BYTES) THEN list_failed("InvalidListNonce")
    ELSE IF contains_key(StatusLists, status_list_id)
    THEN list_failed("StatusListAlreadyExists")
    ELSE IF ~sum.ok THEN list_failed("StatusIndexOutOfBounds")
    ELSE LET bitmap_len == sum.val \div 8
             record == [version |-> 0, issuer_did |-> issuer_did,
                        list_nonce |-> list_nonce,
                        bitmap |-> [i \in 1..bitmap_len |-> 0]]
         IN  [result |-> "Ok",
              records |-> insert(StatusLists, status_list_id, record),
              events |-> <<[name |-> "StatusListCreated",
                            status_list_id |-> status_list_string_from_id(status_list_id),
                            issuer_did |-> issuer_did]>>]

\* set_status refusing bytes that are no ML-DSA-44 signature.
set_status_call_parsing_signature(origin, status_list_id, issuer_did, status_index, revoked, did_signature) ==
    LET id == decode_status_list_id(status_list_id) IN
    IF ~ensure_signed(origin) THEN list_failed("BadOrigin")
    ELSE IF ~signature_try_from(did_signature) THEN list_failed("InvalidDidSignature")
    ELSE IF ~id.ok THEN list_failed(id.err)
    ELSE LET out == set_status_closure(get(StatusLists, id.val), issuer_did,
                                       status_index, revoked)
             stored == try_mutate(StatusLists, id.val, out)
         IN
    IF out.res # "Ok" THEN [result |-> out.res, records |-> stored, events |-> <<>>]
    ELSE [result |-> "Ok", records |-> stored,
          events |-> <<[name |-> "StatusUpdated",
                        status_list_id |-> status_list_string_from_id(id.val),
                        status_index |-> status_index, revoked |-> revoked]>>]

set_status_call(origin, status_list_id, issuer_did, status_index, revoked, did_signature) ==
    LET id == decode_status_list_id(status_list_id) IN
    IF ~ensure_signed(origin) THEN list_failed("BadOrigin")
    ELSE IF ~id.ok THEN list_failed(id.err)
    ELSE LET out == set_status_closure(get(StatusLists, id.val), issuer_did,
                                       status_index, revoked)
             stored == try_mutate(StatusLists, id.val, out)
         IN
    IF out.res # "Ok" THEN [result |-> out.res, records |-> stored, events |-> <<>>]
    ELSE [result |-> "Ok", records |-> stored,
          events |-> <<[name |-> "StatusUpdated",
                        status_list_id |-> status_list_string_from_id(id.val),
                        status_index |-> status_index, revoked |-> revoked]>>]

(***************************************************************************)
(* pallets/schema.                                                         *)
(***************************************************************************)
\* The bytes schema_id_from_schema hashes.
schema_material(schema_json) == SCHEMA_MATERIAL_PREFIX \o genesis \o schema_json

schema_id_from_schema(schema_json) == blake2_256(schema_material(schema_json))

schema_string_from_schema_id(schema_id) == SCHEMA_PREFIX \o bs58_encode(schema_id)

decode_schema_id(input) ==
    LET schema_id_bytes ==
            IF starts_with(input, SCHEMA_PREFIX) THEN strip_prefix(input, SCHEMA_PREFIX)
            ELSE input
        decoded == bs58_decode(schema_id_bytes)
    IN  IF ~decoded.ok THEN Err("InvalidSchemaId")
        ELSE IF Len(decoded.val) # ID_LEN THEN Err("InvalidSchemaId")
        ELSE Ok(decoded.val)

get_schema(schema_id) ==
    LET id == decode_schema_id(schema_id) IN
    IF ~id.ok THEN Err(id.err)
    ELSE IF ~contains_key(Schemas, id.val) THEN Err("SchemaNotFound")
    ELSE Ok(Schemas[id.val])

\* deprecate_schema comparing the issuer before it looks at the deprecated flag.
deprecate_schema_closure_issuer_first(maybe_record, issuer_did) ==
    IF ~maybe_record.ok THEN [res |-> "SchemaNotFound", details |-> maybe_record]
    ELSE LET record == maybe_record.val IN
    IF record.issuer_did # issuer_did THEN [res |-> "IssuerMismatch", details |-> record]
    ELSE IF record.deprecated THEN [res |-> "SchemaDeprecated", details |-> record]
    ELSE [res |-> "Ok",
          details |-> [record EXCEPT !.deprecated = TRUE,
                                     !.version = saturating_add(@, 1)]]

deprecate_schema_closure(maybe_record, issuer_did) ==
    IF ~maybe_record.ok THEN [res |-> "SchemaNotFound", details |-> maybe_record]
    ELSE LET record == maybe_record.val IN
    IF record.deprecated THEN [res |-> "SchemaDeprecated", details |-> record]
    ELSE IF record.issuer_did # issuer_did THEN [res |-> "IssuerMismatch", details |-> record]
    ELSE [res |-> "Ok",
          details |-> [record EXCEPT !.deprecated = TRUE,
                                     !.version = saturating_add(@, 1)]]

schema_failed(error) == [result |-> error, records |-> Schemas, events |-> <<>>]

\* register_schema deriving the id from the schema bytes and the uri.
register_schema_call_id_from_uri(origin, schema_json, schema_uri, issuer_did, did_signature) ==
    LET schema_id == schema_id_from_schema(schema_json \o schema_uri)
        record == [version |-> 0, deprecated |-> FALSE, issuer_did |-> issuer_did,
                   schema_hash |-> blake2_256(schema_json), schema_uri |-> schema_uri]
    IN
    IF ~ensure_signed(origin) THEN schema_failed("BadOrigin")
    ELSE IF contains_key(Schemas, schema_id) THEN schema_failed("SchemaAlreadyExists")
    ELSE [result |-> "Ok", records |-> insert(Schemas, schema_id, record),
          events |-> <<[name |-> "SchemaRegistered",
                        schema_id |-> schema_string_from_schema_id(schema_id),
                        issuer_did |-> issuer_did]>>]

\* register_schema asking that the issuer is a stored DID that is not deactivated.
register_schema_call_of_active_issuer(origin, schema_json, schema_uri, issuer_did, did_signature) ==
    LET schema_id == schema_id_from_schema(schema_json)
        record == [version |-> 0, deprecated |-> FALSE, issuer_did |-> issuer_did,
                   schema_hash |-> blake2_256(schema_json), schema_uri |-> schema_uri]
        issuer == get_did(issuer_did)
    IN
    IF ~ensure_signed(origin) THEN schema_failed("BadOrigin")
    ELSE IF ~issuer.ok THEN schema_failed(issuer.err)
    ELSE IF issuer.val.deactivated THEN schema_failed("DidDeactivated")
    ELSE IF contains_key(Schemas, schema_id) THEN schema_failed("SchemaAlreadyExists")
    ELSE [result |-> "Ok", records |-> insert(Schemas, schema_id, record),
          events |-> <<[name |-> "SchemaRegistered",
                        schema_id |-> schema_string_from_schema_id(schema_id),
                        issuer_did |-> issuer_did]>>]

register_schema_call(origin, schema_json, schema_uri, issuer_did, did_signature) ==
    LET schema_id == schema_id_from_schema(schema_json)
        record == [version |-> 0, deprecated |-> FALSE, issuer_did |-> issuer_did,
                   schema_hash |-> blake2_256(schema_json), schema_uri |-> schema_uri]
    IN
    IF ~ensure_signed(origin) THEN schema_failed("BadOrigin")
    ELSE IF contains_key(Schemas, schema_id) THEN schema_failed("SchemaAlreadyExists")
    ELSE [result |-> "Ok", records |-> insert(Schemas, schema_id, record),
          events |-> <<[name |-> "SchemaRegistered",
                        schema_id |-> schema_string_from_schema_id(schema_id),
                        issuer_did |-> issuer_did]>>]

deprecate_schema_call(origin, schema_id, issuer_did, did_signature) ==
    LET id == decode_schema_id(schema_id) IN
    IF ~ensure_signed(origin) THEN schema_failed("BadOrigin")
    ELSE IF ~id.ok THEN schema_failed(id.err)
    ELSE LET out == deprecate_schema_closure(get(Schemas, id.val), issuer_did)
             stored == try_mutate(Schemas, id.val, out)
         IN
    IF out.res # "Ok" THEN [result |-> out.res, records |-> stored, events |-> <<>>]
    ELSE [result |-> "Ok", records |-> stored,
          events |-> <<[name |-> "SchemaDeprecated",
                        schema_id |-> schema_string_from_schema_id(id.val),
                        issuer_did |-> issuer_did]>>]

(***************************************************************************)
(* The state machine.  The host delivers one extrinsic at a time: a call   *)
(* runs to its DispatchResult (pc = "returned", with the call, its result  *)
(* and the storage it started from kept for inspection), and the host then *)
(* moves on to the next extrinsic.                                         *)
(***************************************************************************)
NoCall == [cmd |-> "none"]

EmptyStorage ==
    [DidRecords |-> <<>>, StatusLists |-> <<>>, Schemas |-> <<>>, events |-> <<>>]

Storage ==
    [DidRecords |-> DidRecords, StatusLists |-> StatusLists, Schemas |-> Schemas,
     events |-> events]

Init ==
    /\ DidRecords = <<>>
    /\ StatusLists = <<>>
    /\ Schemas = <<>>
    /\ events = <<>>
    /\ pc = "idle"
    /\ call = NoCall
    /\ result = "None"
    /\ pre = EmptyStorage

\* What every call does around its body: take the extrinsic, leave the result.
dispatched(c, out) ==
    /\ pc = "idle"
    /\ Len(events) + Len(out.events) <= MaxEvents
    /\ pc' = "returned"
    /\ call' = c
    /\ result' = out.result
    /\ pre' = Storage
    /\ events' = events \o out.events

did_dispatched(c, out) ==
    /\ dispatched(c, out)
    /\ DidRecords' = out.records
    /\ UNCHANGED <<StatusLists, Schemas>>

create_did(origin, public_key, did_signature) ==
    did_dispatched([cmd |-> "create_did", origin |-> origin, public_key |-> public_key,
                    did_signature |-> did_signature],
                   create_did_call(origin, public_key, did_signature))

add_key(origin, did_id, public_key, roles, did_signature) ==
    did_dispatched([cmd |-> "add_key", origin |-> origin, did_id |-> did_id,
                    public_key |-> public_key, roles |-> roles,
                    did_signature |-> did_signature],
                   add_key_call(origin, did_id, public_key, roles, did_signature))

revoke_key(origin, did_id, public_key, did_signature) ==
    did_dispatched([cmd |-> "revoke_key", origin |-> origin, did_id |-> did_id,
                    public_key |-> public_key, did_signature |-> did_signature],
                   revoke_key_call(origin, did_id, public_key, did_signature))

deactivate_did(origin, did_id, did_signature) ==
    did_dispatched([cmd |-> "deactivate_did", origin |-> origin, did_id |-> did_id,
                    did_signature |-> did_signature],
                   deactivate_did_call(origin, did_id, did_signature))

add_service(origin, did_id, service, did_signature) ==
    did_dispatched([cmd |-> "add_service", origin |-> origin, did_id |-> did_id,
                    service |-> service, did_signature |-> did_signature],
                   add_service_call(origin, did_id, service, did_signature))

remove_service(origin, did_id, service_id, did_signature) ==
    did_dispatched([cmd |-> "remove_service", origin |-> origin, did_id |-> did_id,
                    service_id |-> service_id, did_signature |-> did_signature],
                   remove_service_call(origin, did_id, service_id, did_signature))

set_metadata(origin, did_id, entry, did_signature) ==
    did_dispatched([cmd |-> "set_metadata", origin |-> origin, did_id |-> did_id,
                    entry |-> entry, did_signature |-> did_signature],
                   set_metadata_call(origin, did_id, entry, did_signature))

remove_metadata(origin, did_id, key, did_signature) ==
    did_dispatched([cmd |-> "remove_metadata", origin |-> origin, did_id |-> did_id,
                    key |-> key, did_signature |-> did_signature],
                   remove_metadata_call(origin, did_id, key, did_signature))

rotate_key(origin, did_id, old_public_key, new_public_key, roles, did_signature) ==
    did_dispatched([cmd |-> "rotate_key", origin |-> origin, did_id |-> did_id,
                    old_public_key |-> old_public_key,
                    new_public_key |-> new_public_key, roles |-> roles,
                    did_signature |-> did_signature],
                   rotate_key_call(origin, did_id, old_public_key, new_public_key,
                                   roles, did_signature))

update_roles(origin, did_id, public_key, roles, did_signature) ==
    did_dispatched([cmd |-> "update_roles", origin |-> origin, did_id |-> did_id,
                    public_key |-> public_key, roles |-> roles,
                    did_signature |-> did_signature],
                   update_roles_call(origin, did_id, public_key, roles, did_signature))

list_dispatched(c, out) ==
    /\ dispatched(c, out)
    /\ StatusLists' = out.records
    /\ UNCHANGED <<DidRecords, Schemas>>

create_status_list(origin, issuer_did, list_nonce, list_length, did_signature) ==
    list_dispatched([cmd |-> "create_status_list", origin |-> origin,
                     issuer_did |-> issuer_did, list_nonce |-> list_nonce,
                     list_length |-> list_length, did_signature |-> did_signature],
                    create_status_list_call(origin, issuer_did, list_nonce, list_length,
                                            did_signature))

set_status(origin, status_list_id, issuer_did, status_index, revoked, did_signature) ==
    list_dispatched([cmd |-> "set_status", origin |-> origin,
                     status_list_id |-> status_list_id, issuer_did |-> issuer_did,
                     status_index |-> status_index, revoked |-> revoked,
                     did_signature |-> did_signature],
                    set_status_call(origin, status_list_id, issuer_did, status_index,
                                    revoked, did_signature))

schema_dispatched(c, out) ==
    /\ dispatched(c, out)
    /\ Schemas' = out.records
    /\ UNCHANGED <<DidRecords, StatusLists>>

register_schema(origin, schema_json, schema_uri, issuer_did, did_signature) ==
    schema_dispatched([cmd |-> "register_schema", origin |-> origin,
                       schema_json |-> schema_json, schema_uri |-> schema_uri,
                       issuer_did |-> issuer_did, did_signature |-> did_signature],
                      register_schema_call(origin, schema_json, schema_uri, issuer_did,
                                           did_signature))

deprecate_schema(origin, schema_id, issuer_did, did_signature) ==
    schema_dispatched([cmd |-> "deprecate_schema", origin |-> origin,
                       schema_id |-> schema_id, issuer_did |-> issuer_did,
                       did_signature |-> did_signature],
                      deprecate_schema_call(origin, schema_id, issuer_did, did_signature))

\* The host has taken the DispatchResult and is ready for the next extrinsic.
next_extrinsic ==
    /\ pc = "returned"
    /\ pc' = "idle"
    /\ call' = NoCall
    /\ result' = "None"
    /\ pre' = EmptyStorage
    /\ UNCHANGED <<DidRecords, StatusLists, Schemas, events>>

(***************************************************************************)
(* The extrinsics the host delivers: every call, with arguments drawn from *)
(* small sets that hold a well-formed and a malformed value of each kind.  *)
(* A specification fixes the sets in a record `In`.                        *)
(***************************************************************************)
Alice == [signed |-> TRUE, who |-> "alice"]
Unsigned == [signed |-> FALSE, who |-> "none"]
Bob == [signed |-> TRUE, who |-> "bob"]

PK1 == [i \in 1..PUBLIC_KEY_LEN |-> 1]
PK2 == [i \in 1..PUBLIC_KEY_LEN |-> 2]
\* One byte too long to be an ML-DSA-44 public key.
PK_BAD == [i \in 1..(PUBLIC_KEY_LEN + 1) |-> 3]

DID1 == did_id_from_public_key(PK1)
DID2 == did_id_from_public_key(PK2)
DID1_TEXT == did_string_from_did_id(DID1)
DID1_RAW == bs58_encode(DID1)
DID2_TEXT == did_string_from_did_id(DID2)
DID2_RAW == bs58_encode(DID2)
\* "0" is no Base58 character.
NOT_BS58 == <<48>>

\* A message no call signs.
OTHER_MESSAGE == <<0>>

SERVICE1 == [id |-> <<1>>, service_type |-> <<1>>, endpoint |-> <<1>>]
SERVICE1_MOVED == [id |-> <<1>>, service_type |-> <<1>>, endpoint |-> <<2>>]
SERVICE2 == [id |-> <<2>>, service_type |-> <<1>>, endpoint |-> <<1>>]

ENTRY1 == [key |-> <<1>>, value |-> <<1>>]
ENTRY1_CHANGED == [key |-> <<1>>, value |-> <<2>>]
ENTRY2 == [key |-> <<2>>, value |-> <<1>>]
ENTRY3 == [key |-> <<3>>, value |-> <<1>>]

NONCE_OK == [i \in 1..MIN_LIST_NONCE_BYTES |-> 0]
NONCE_SHORT == [i \in 1..(MIN_LIST_NONCE_BYTES - 1) |-> 0]
\* An issuer and a nonce with one byte, "1", moved from the front of the nonce to
\* the end of the issuer.
ISSUER1_EXTENDED == DID1_TEXT \o <<49>>
NONCE_EXTENDED == <<49>> \o NONCE_OK
LIST1 == status_list_id_from_parts(DID1_TEXT, NONCE_OK)
LIST_EXTENDED_TEXT ==
    status_list_string_from_id(status_list_id_from_parts(DID1_TEXT, NONCE_EXTENDED))
LIST2 == status_list_id_from_parts(DID2_TEXT, NONCE_OK)
LIST1_TEXT == status_list_string_from_id(LIST1)
LIST2_RAW == bs58_encode(LIST2)

\* "{}" and "[]"
JSON1 == <<123, 125>>
JSON2 == <<91, 93>>
SCHEMA1 == schema_id_from_schema(JSON1)
SCHEMA2 == schema_id_from_schema(JSON2)
SCHEMA1_TEXT == schema_string_from_schema_id(SCHEMA1)
SCHEMA2_RAW == bs58_encode(SCHEMA2)

\* The bytes a call with the fields of `c` has to be signed over.
PayloadOf(c) ==
    CASE c.cmd = "create_did" -> create_did_payload(c.public_key)
      [] c.cmd = "add_key" -> add_key_payload(c.did_id, c.public_key, c.roles)
      [] c.cmd = "revoke_key" -> revoke_key_payload(c.did_id, c.public_key)
      [] c.cmd = "deactivate_did" -> deactivate_did_payload(c.did_id)
      [] c.cmd = "add_service" -> add_service_payload(c.did_id, c.service)
      [] c.cmd = "remove_service" ->
             remove_service_payload(c.did_id, c.service_id)
      [] c.cmd = "set_metadata" -> set_metadata_payload(c.did_id, c.entry)
      [] c.cmd = "remove_metadata" -> remove_metadata_payload(c.did_id, c.key)
      [] c.cmd = "rotate_key" ->
             rotate_key_payload(c.did_id, c.old_public_key, c.new_public_key,
                                c.roles)
      [] c.cmd = "update_roles" ->
             update_roles_payload(c.did_id, c.public_key, c.roles)

\* The signatures tried on a call that signs `payload`: bytes that are no
\* signature, the payload signed by each signer, another message signed, and the
\* signatures that were made for other calls and are submitted again.
SignatureInputs(In, payload) ==
    {MalformedSignature, sign(PK1, OTHER_MESSAGE)}
        \cup {sign(signer, payload) : signer \in In.signers}
        \cup In.replayed

rep(S) == CHOOSE x \in S : TRUE

\* An unsigned origin is tried with one value of every other argument.
unsigned_once(origin, args, reps) == origin.signed \/ args = reps

deliver_create_did(In) ==
    /\ pc = "idle"
    /\ \E origin \in In.origins, public_key \in In.created_keys :
       \E did_signature \in SignatureInputs(In, create_did_payload(public_key)) :
        /\ unsigned_once(origin, <<public_key, did_signature>>,
                         <<rep(In.created_keys), MalformedSignature>>)
        /\ create_did(origin, public_key, did_signature)

deliver_add_key(In) ==
    /\ pc = "idle"
    /\ \E origin \in In.origins, did_id \in In.did_ids, public_key \in In.keys,
      roles \in In.roles :
     \E did_signature \in
            SignatureInputs(In, add_key_payload(did_id, public_key, roles)) :
        /\ unsigned_once(origin, <<did_id, public_key, roles, did_signature>>,
                         <<rep(In.did_ids), rep(In.keys), rep(In.roles),
                           MalformedSignature>>)
        /\ add_key(origin, did_id, public_key, roles, did_signature)

deliver_revoke_key(In) ==
    /\ pc = "idle"
    /\ \E origin \in In.origins, did_id \in In.did_ids, public_key \in In.keys :
     \E did_signature \in
            SignatureInputs(In, revoke_key_payload(did_id, public_key)) :
        /\ unsigned_once(origin, <<did_id, public_key, did_signature>>,
                         <<rep(In.did_ids), rep(In.keys), MalformedSignature>>)
        /\ revoke_key(origin, did_id, public_key, did_signature)

deliver_deactivate_did(In) ==
    /\ pc = "idle"
    /\ \E origin \in In.origins, did_id \in In.did_ids :
     \E did_signature \in SignatureInputs(In, deactivate_did_payload(did_id)) :
        /\ unsigned_once(origin, <<did_id, did_signature>>,
                         <<rep(In.did_ids), MalformedSignature>>)
        /\ deactivate_did(origin, did_id, did_signature)

deliver_rotate_key(In) ==
    /\ pc = "idle"
    /\ \E origin \in In.origins, did_id \in In.did_ids, old_public_key \in In.keys,
      new_public_key \in In.keys, roles \in In.roles :
     \E did_signature \in SignatureInputs(In,
            rotate_key_payload(did_id, old_public_key, new_public_key, roles)) :
        /\ unsigned_once(origin,
                         <<did_id, old_public_key, new_public_key, roles,
                           did_signature>>,
                         <<rep(In.did_ids), rep(In.keys), rep(In.keys),
                           rep(In.roles), MalformedSignature>>)
        /\ rotate_key(origin, did_id, old_public_key, new_public_key, roles,
                      did_signature)

deliver_update_roles(In) ==
    /\ pc = "idle"
    /\ \E origin \in In.origins, did_id \in In.did_ids, public_key \in In.keys,
      roles \in In.roles :
     \E did_signature \in
            SignatureInputs(In, update_roles_payload(did_id, public_key, roles)) :
        /\ unsigned_once(origin, <<did_id, public_key, roles, did_signature>>,
                         <<rep(In.did_ids), rep(In.keys), rep(In.roles),
                           MalformedSignature>>)
        /\ update_roles(origin, did_id, public_key, roles, did_signature)

did_key_calls(In) ==
    \/ deliver_create_did(In)
    \/ deliver_add_key(In)
    \/ deliver_revoke_key(In)
    \/ deliver_deactivate_did(In)
    \/ deliver_rotate_key(In)
    \/ deliver_update_roles(In)

deliver_add_service(In) ==
    /\ pc = "idle"
    /\ \E origin \in In.origins, did_id \in In.did_ids, service \in In.services :
     \E did_signature \in
            SignatureInputs(In, add_service_payload(did_id, service)) :
        /\ unsigned_once(origin, <<did_id, service, did_signature>>,
                         <<rep(In.did_ids), rep(In.services), MalformedSignature>>)
        /\ add_service(origin, did_id, service, did_signature)

deliver_remove_service(In) ==
    /\ pc = "idle"
    /\ \E origin \in In.origins, did_id \in In.did_ids,
      service_id \in In.service_ids :
     \E did_signature \in
            SignatureInputs(In, remove_service_payload(did_id, service_id)) :
        /\ unsigned_once(origin, <<did_id, service_id, did_signature>>,
                         <<rep(In.did_ids), rep(In.service_ids),
                           MalformedSignature>>)
        /\ remove_service(origin, did_id, service_id, did_signature)

deliver_set_metadata(In) ==
    /\ pc = "idle"
    /\ \E origin \in In.origins, did_id \in In.did_ids, entry \in In.entries :
     \E did_signature \in
            SignatureInputs(In, set_metadata_payload(did_id, entry)) :
        /\ unsigned_once(origin, <<did_id, entry, did_signature>>,
                         <<rep(In.did_ids), rep(In.entries), MalformedSignature>>)
        /\ set_metadata(origin, did_id, entry, did_signature)

deliver_remove_metadata(In) ==
    /\ pc = "idle"
    /\ \E origin \in In.origins, did_id \in In.did_ids, key \in In.metadata_keys :
     \E did_signature \in
            SignatureInputs(In, remove_metadata_payload(did_id, key)) :
        /\ unsigned_once(origin, <<did_id, key, did_signature>>,
                         <<rep(In.did_ids), rep(In.metadata_keys),
                           MalformedSignature>>)
        /\ remove_metadata(origin, did_id, key, did_signature)

did_document_calls(In) ==
    \/ deliver_add_service(In)
    \/ deliver_remove_service(In)
    \/ deliver_set_metadata(In)
    \/ deliver_remove_metadata(In)

deliver_create_status_list(In) ==
    /\ pc = "idle"
    /\ \E origin \in In.origins, issuer_did \in In.issuers,
      list_nonce \in In.nonces, list_length \in In.lengths,
      did_signature \in In.unverified_signatures :
        /\ unsigned_once(origin,
                         <<issuer_did, list_nonce, list_length, did_signature>>,
                         <<rep(In.issuers), rep(In.nonces), rep(In.lengths),
                           rep(In.unverified_signatures)>>)
        /\ create_status_list(origin, issuer_did, list_nonce, list_length,
                              did_signature)

deliver_set_status(In) ==
    /\ pc = "idle"
    /\ \E origin \in In.origins, status_list_id \in In.status_list_ids,
      issuer_did \in In.issuers, status_index \in In.indices,
      revoked \in BOOLEAN, did_signature \in In.unverified_signatures :
        /\ unsigned_once(origin,
                         <<status_list_id, issuer_did, status_index, revoked,
                           did_signature>>,
                         <<rep(In.status_list_ids), rep(In.issuers),
                           rep(In.indices), TRUE, rep(In.unverified_signatures)>>)
        /\ set_status(origin, status_list_id, issuer_did, status_index, revoked,
                      did_signature)

status_list_calls(In) ==
    \/ deliver_create_status_list(In)
    \/ deliver_set_status(In)

deliver_register_schema(In) ==
    /\ pc = "idle"
    /\ \E origin \in In.origins, schema_json \in In.schema_jsons,
      schema_uri \in In.schema_uris, issuer_did \in In.issuers,
      did_signature \in In.unverified_signatures :
        /\ unsigned_once(origin,
                         <<schema_json, schema_uri, issuer_did, did_signature>>,
                         <<rep(In.schema_jsons), rep(In.schema_uris),
                           rep(In.issuers), rep(In.unverified_signatures)>>)
        /\ register_schema(origin, schema_json, schema_uri, issuer_did,
                           did_signature)

deliver_deprecate_schema(In) ==
    /\ pc = "idle"
    /\ \E origin \in In.origins, schema_id \in In.schema_ids,
      issuer_did \in In.issuers, did_signature \in In.unverified_signatures :
        /\ unsigned_once(origin, <<schema_id, issuer_did, did_signature>>,
                         <<rep(In.schema_ids), rep(In.issuers),
                           rep(In.unverified_signatures)>>)
        /\ deprecate_schema(origin, schema_id, issuer_did, did_signature)

schema_calls(In) ==
    \/ deliver_register_schema(In)
    \/ deliver_deprecate_schema(In)

\* The next block starts: the events of the block before are no longer in the
\* block's event list.
next_block ==
    /\ pc = "returned"
    /\ pc' = "idle"
    /\ call' = NoCall
    /\ result' = "None"
    /\ pre' = EmptyStorage
    /\ events' = <<>>
    /\ UNCHANGED <<DidRecords, StatusLists, Schemas>>

(***************************************************************************)
(* Spec: all fourteen calls of the three pallets on one chain.             *)
(***************************************************************************)
Inputs ==
    [origins |-> {Alice, Unsigned},
     created_keys |-> {PK1, PK2, PK_BAD},
     keys |-> {PK1, PK2},
     did_ids |-> {DID1_TEXT, NOT_BS58},
     roles |-> {<<"KeyAgreement">>},
     signers |-> {PK1, PK2},
     replayed |-> {},
     services |-> {SERVICE1, SERVICE1_MOVED},
     service_ids |-> {<<1>>},
     entries |-> {ENTRY1, ENTRY1_CHANGED},
     metadata_keys |-> {<<1>>},
     issuers |-> {DID1_TEXT, DID2_TEXT},
     nonces |-> {NONCE_OK, NONCE_SHORT},
     lengths |-> {20, U32_MAX},
     indices |-> {9, 24},
     status_list_ids |-> {LIST1_TEXT, NOT_BS58},
     unverified_signatures |-> {MalformedSignature},
     schema_jsons |-> {JSON1},
     schema_uris |-> {<<1>>},
     schema_ids |-> {SCHEMA1_TEXT, NOT_BS58}]

Next ==
    \/ did_key_calls(Inputs)
    \/ did_document_calls(Inputs)
    \/ status_list_calls(Inputs)
    \/ schema_calls(Inputs)
    \/ next_extrinsic

Spec == Init /\ [][Next]_vars

(***************************************************************************)
(* SpecKeys: the calls that manage the keys of two DIDs, signed by either  *)
(* of two key pairs.                                                       *)
(***************************************************************************)
KeyInputs ==
    [origins |-> {Alice, Unsigned},
     created_keys |-> {PK1, PK2, PK_BAD},
     keys |-> {PK1, PK2, PK_BAD},
     did_ids |-> {DID1_TEXT, DID2_RAW, NOT_BS58},
     roles |-> {<<"KeyAgreement">>},
     signers |-> {PK1, PK2},
     replayed |-> {}]

NextKeys ==
    \/ did_key_calls(KeyInputs)
    \/ next_extrinsic

SpecKeys == Init /\ [][NextKeys]_vars

(***************************************************************************)
(* SpecLists: the status lists of two issuers.  Lists are created with a   *)
(* length that is no multiple of eight, with the largest length whose      *)
(* bitmap can be sized and with the smallest that overflows; statuses are  *)
(* written on both sides of the end of the shorter bitmap.                 *)
(***************************************************************************)
ListInputs ==
    [origins |-> {Alice, Unsigned},
     issuers |-> {DID1_TEXT, DID2_TEXT},
     nonces |-> {NONCE_OK, NONCE_SHORT},
     lengths |-> {0, 9, U32_MAX - 7, U32_MAX - 6},
     indices |-> {0, 9, 10, 16},
     status_list_ids |-> {LIST1_TEXT, LIST2_RAW, NOT_BS58},
     unverified_signatures |-> {MalformedSignature}]

NextLists ==
    \/ status_list_calls(ListInputs)
    \/ next_extrinsic

SpecLists == Init /\ [][NextLists]_vars

(***************************************************************************)
(* SpecSchemas: the schemas of two issuers, beside one DID and the status  *)
(* lists of the same issuers.  One schema has the bytes of the DID's       *)
(* public key.                                                             *)
(***************************************************************************)
SchemaInputs ==
    [origins |-> {Alice, Unsigned},
     created_keys |-> {PK1},
     signers |-> {PK1},
     replayed |-> {},
     issuers |-> {DID1_TEXT, DID2_TEXT},
     nonces |-> {NONCE_OK},
     lengths |-> {9},
     unverified_signatures |-> {MalformedSignature},
     schema_jsons |-> {JSON1, JSON2, PK1},
     schema_uris |-> {<<1>>, <<2>>},
     schema_ids |-> {SCHEMA1_TEXT, SCHEMA2_RAW, NOT_BS58}]

NextSchemas ==
    \/ deliver_create_did(SchemaInputs)
    \/ deliver_create_status_list(SchemaInputs)
    \/ schema_calls(SchemaInputs)
    \/ next_extrinsic

SpecSchemas == Init /\ [][NextSchemas]_vars

(***************************************************************************)
(* SpecPayloads: the calls that manage the keys of one DID, addressed in   *)
(* its prefixed and in its raw Base58 form.  Beside a signature over its   *)
(* own payload each call is tried with the signatures the controller made  *)
(* for other calls: for the other commands with the same fields, and for   *)
(* the same command addressed in the other form.                           *)
(***************************************************************************)
SignedCalls ==
    LET forms == {DID1_TEXT, DID1_RAW}
        roles == <<"KeyAgreement">>
    IN  {[cmd |-> "add_key", did_id |-> d, public_key |-> PK2, roles |-> roles] :
             d \in forms}
        \cup {[cmd |-> "update_roles", did_id |-> d, public_key |-> PK2,
                roles |-> roles] : d \in forms}
        \cup {[cmd |-> "revoke_key", did_id |-> d, public_key |-> PK2] : d \in forms}
        \cup {[cmd |-> "deactivate_did", did_id |-> d] : d \in forms}

PayloadInputs ==
    [origins |-> {Alice, Unsigned},
     created_keys |-> {PK1},
     keys |-> {PK1, PK2},
     did_ids |-> {DID1_TEXT, DID1_RAW},
     roles |-> {<<"KeyAgreement">>},
     signers |-> {PK1},
     replayed |-> {sign(PK1, PayloadOf(c)) : c \in SignedCalls}]

NextPayloads ==
    \/ did_key_calls(PayloadInputs)
    \/ next_extrinsic

SpecPayloads == Init /\ [][NextPayloads]_vars

(***************************************************************************)
(* SpecRegistries: the status list and the schema of one issuer, written   *)
(* by two accounts with bytes that are no signature and with a signature   *)
(* of a key the issuer does not hold, beside the issuer's DID, which is    *)
(* created, loses its key and is deactivated.                              *)
(***************************************************************************)
RegistryInputs ==
    [origins |-> {Alice, Bob, Unsigned},
     created_keys |-> {PK1},
     keys |-> {PK1},
     did_ids |-> {DID1_TEXT},
     signers |-> {PK1},
     replayed |-> {},
     issuers |-> {DID1_TEXT, DID2_TEXT},
     nonces |-> {NONCE_OK},
     lengths |-> {9},
     indices |-> {9, 16},
     status_list_ids |-> {LIST1_TEXT},
     unverified_signatures |-> {MalformedSignature, sign(PK2, OTHER_MESSAGE)},
     schema_jsons |-> {JSON1},
     schema_uris |-> {<<1>>},
     schema_ids |-> {SCHEMA1_TEXT}]

NextRegistries ==
    \/ deliver_create_did(RegistryInputs)
    \/ deliver_revoke_key(RegistryInputs)
    \/ deliver_deactivate_did(RegistryInputs)
    \/ status_list_calls(RegistryInputs)
    \/ schema_calls(RegistryInputs)
    \/ next_extrinsic

SpecRegistries == Init /\ [][NextRegistries]_vars

(***************************************************************************)
(* SpecDocuments: the services and the metadata of one DID, one call a     *)
(* block, with two service ids and three metadata keys.                    *)
(***************************************************************************)
DocumentInputs ==
    [origins |-> {Alice, Unsigned},
     created_keys |-> {PK1},
     did_ids |-> {DID1_TEXT},
     signers |-> {PK1},
     replayed |-> {},
     services |-> {SERVICE1, SERVICE1_MOVED, SERVICE2},
     service_ids |-> {<<1>>, <<2>>},
     entries |-> {ENTRY1, ENTRY1_CHANGED, ENTRY2, ENTRY3},
     metadata_keys |-> {<<1>>, <<2>>, <<3>>}]

NextDocuments ==
    \/ deliver_create_did(DocumentInputs)
    \/ did_document_calls(DocumentInputs)
    \/ next_block

SpecDocuments == Init /\ [][NextDocuments]_vars

(***************************************************************************)
(* SpecRoles: the key commands on one DID with two keys, one call a block, *)
(* the keys given no role or the KeyAgreement role alone.                  *)
(***************************************************************************)
RoleInputs ==
    [origins |-> {Alice, Unsigned},
     created_keys |-> {PK1},
     keys |-> {PK1, PK2},
     did_ids |-> {DID1_TEXT},
     roles |-> {<<>>, <<"KeyAgreement">>},
     signers |-> {PK1, PK2},
     replayed |-> {}]

NextRoles == did_key_calls(RoleInputs) \/ next_block

SpecRoles == Init /\ [][NextRoles]_vars

(***************************************************************************)
(* SpecListIds: status lists of issuers whose bytes are a prefix of one    *)
(* another, with nonces of the least length and one byte longer.           *)
(***************************************************************************)
ListIdInputs ==
    [origins |-> {Alice, Unsigned},
     issuers |-> {DID1_TEXT, ISSUER1_EXTENDED, DID2_TEXT},
     nonces |-> {NONCE_OK, NONCE_EXTENDED},
     lengths |-> {9},
     indices |-> {9},
     status_list_ids |-> {LIST1_TEXT, LIST_EXTENDED_TEXT},
     unverified_signatures |-> {MalformedSignature}]

NextListIds == status_list_calls(ListIdInputs) \/ next_extrinsic

SpecListIds == Init /\ [][NextListIds]_vars

(***************************************************************************)
(* What the properties below say about a call that has returned.           *)
(***************************************************************************)
Returned == pc = "returned"

DidMutations ==
    {"add_key", "revoke_key", "deactivate_did", "add_service", "remove_service",
     "set_metadata", "remove_metadata", "rotate_key", "update_roles"}

\* The bytes the returned call had to be signed over.
CallPayload == PayloadOf(call)

\* The returned call is one of the nine calls on a DID, from a signed origin, and
\* names a DID that was stored when the call started.
OnStoredDid ==
    /\ Returned
    /\ call.cmd \in DidMutations
    /\ call.origin.signed
    /\ LET id == decode_did_id(call.did_id) IN
       id.ok /\ id.val \in DOMAIN pre.DidRecords

TargetId == decode_did_id(call.did_id).val
TargetBefore == pre.DidRecords[TargetId]

\* Some key of the target DID that was not revoked when the call started verifies
\* the call's signature over the call's payload.
VerifiesUnderLiveKey ==
    /\ call.did_signature.wf
    /\ LET keys == TargetBefore.keys IN
       \E i \in 1..Len(keys) :
           /\ ~keys[i].revoked
           /\ public_try_from(keys[i].public_key)
           /\ call.did_signature.signer = keys[i].public_key
    /\ call.did_signature.msg = CallPayload

StorageUnchanged ==
    /\ DidRecords = pre.DidRecords
    /\ StatusLists = pre.StatusLists
    /\ Schemas = pre.Schemas

(***************************************************************************)
(* C1.  Atomicity: a call of any of the three pallets that returns an      *)
(* error leaves DidRecords, StatusLists and Schemas as they were and       *)
(* deposits no event; so a failed rotate_key marks no key revoked and      *)
(* appends none.                                                           *)
(***************************************************************************)
C1_Atomicity ==
    (Returned /\ result # "Ok") => (StorageUnchanged /\ events = pre.events)

\* A rotate_key that got past the signature check and failed inside try_mutate,
\* on an old key the DID does not hold.
C1_Witness ==
    /\ Returned
    /\ call.cmd = "rotate_key"
    /\ result = "KeyNotFound"
    /\ events # <<>>

(***************************************************************************)
(* C2.  Deactivation is absorbing: the record of a DID that was            *)
(* deactivated when a call started is the same record when the call has    *)
(* returned, whatever the call (create_did with the original key and calls *)
(* signed by its live keys included).                                      *)
(***************************************************************************)
C2_DeactivationAbsorbing ==
    Returned =>
        \A id \in DOMAIN pre.DidRecords :
            pre.DidRecords[id].deactivated =>
                /\ id \in DOMAIN DidRecords
                /\ DidRecords[id] = pre.DidRecords[id]

\* A call signed by a live key of a deactivated DID has returned.
C2_Witness ==
    /\ OnStoredDid
    /\ TargetBefore.deactivated
    /\ VerifiesUnderLiveKey

(***************************************************************************)
(* C3 as claimed: every one of the nine calls on a deactivated DID, with   *)
(* any arguments and any signature, returns DidDeactivated.                *)
(***************************************************************************)
C3_AlwaysDidDeactivated ==
    (OnStoredDid /\ TargetBefore.deactivated) => result = "DidDeactivated"

(***************************************************************************)
(* C3 amended: every one of the nine calls on a deactivated DID fails; it  *)
(* returns DidDeactivated when its signature verifies under a live key of  *)
(* the DID, InvalidDidSignature when the signature bytes are malformed and *)
(* InvalidSignature otherwise, because the signature is checked first.     *)
(***************************************************************************)
C3_DeactivatedRejects ==
    (OnStoredDid /\ TargetBefore.deactivated) =>
        result = IF VerifiesUnderLiveKey THEN "DidDeactivated"
                 ELSE IF ~call.did_signature.wf THEN "InvalidDidSignature"
                 ELSE "InvalidSignature"

\* A revoke_key of a key the deactivated DID does not hold, signed by a live key.
C3_Witness ==
    /\ OnStoredDid
    /\ TargetBefore.deactivated
    /\ call.cmd = "revoke_key"
    /\ ~has_key(TargetBefore, call.public_key)
    /\ result = "DidDeactivated"

(***************************************************************************)
(* C4 as claimed: a call on a DID whose signature does not verify under a  *)
(* key that is live in the pre-state fails with InvalidSignature and       *)
(* changes nothing, and a call succeeds only if such a key verifies it.    *)
(***************************************************************************)
C4_UnverifiedIsInvalidSignature ==
    OnStoredDid =>
        /\ ~VerifiesUnderLiveKey => (result = "InvalidSignature" /\ StorageUnchanged)
        /\ result = "Ok" => VerifiesUnderLiveKey

(***************************************************************************)
(* C4 amended: a call on a DID whose signature does not verify under a key *)
(* that is live in the pre-state changes nothing and fails, with           *)
(* InvalidSignature when the signature bytes are well formed and with      *)
(* InvalidDidSignature when they are not; a call succeeds only if a live   *)
(* key verifies it.                                                        *)
(***************************************************************************)
C4_KeySetAuthorization ==
    OnStoredDid =>
        /\ ~VerifiesUnderLiveKey =>
               /\ result = IF call.did_signature.wf THEN "InvalidSignature"
                           ELSE "InvalidDidSignature"
               /\ StorageUnchanged
        /\ result = "Ok" => VerifiesUnderLiveKey

\* A call signed, over the right payload, by a key of the DID that is revoked.
C4_Witness ==
    /\ OnStoredDid
    /\ result = "InvalidSignature"
    /\ call.did_signature.msg = CallPayload
    /\ \E i \in 1..Len(TargetBefore.keys) :
           /\ TargetBefore.keys[i].revoked
           /\ TargetBefore.keys[i].public_key = call.did_signature.signer

(***************************************************************************)
(* Versions and the event log.                                             *)
(***************************************************************************)
CreationEvents == {"DidCreated", "StatusListCreated", "SchemaRegistered"}

Min(a, b) == IF a < b THEN a ELSE b

\* How many events of `log` report a successful mutation of the record whose
\* textual identifier is `text`; `field` is the event field that carries it.
Mutations(log, field, text) ==
    Cardinality({i \in 1..Len(log) :
                    /\ log[i].name \notin CreationEvents
                    /\ field \in DOMAIN log[i]
                    /\ log[i][field] = text})

\* The returned call is a successful mutation of the record `id` of its pallet.
MutatedDid(id) ==
    /\ result = "Ok"
    /\ call.cmd \in DidMutations
    /\ decode_did_id(call.did_id).val = id

MutatedList(id) ==
    /\ result = "Ok"
    /\ call.cmd = "set_status"
    /\ decode_status_list_id(call.status_list_id).val = id

MutatedSchema(id) ==
    /\ result = "Ok"
    /\ call.cmd = "deprecate_schema"
    /\ decode_schema_id(call.schema_id).val = id

(***************************************************************************)
(* C5.  Version counts successful mutations: a record is created with      *)
(* version 0, a successful mutation of it sets version to                  *)
(* min(version + 1, u64::MAX), any other call leaves version alone, and so *)
(* a record's version is the number of successful mutations applied to it  *)
(* since creation, capped at u64::MAX.                                     *)
(***************************************************************************)
C5_VersionCountsMutations ==
    LET counted(v, hit) == IF hit THEN Min(v + 1, U64_MAX) ELSE v IN
    /\ \A id \in DOMAIN DidRecords :
           DidRecords[id].version =
               Min(Mutations(events, "did", did_string_from_did_id(id)), U64_MAX)
    /\ \A id \in DOMAIN StatusLists :
           StatusLists[id].version =
               Min(Mutations(events, "status_list_id", status_list_string_from_id(id)),
                   U64_MAX)
    /\ \A id \in DOMAIN Schemas :
           Schemas[id].version =
               Min(Mutations(events, "schema_id", schema_string_from_schema_id(id)),
                   U64_MAX)
    /\ Returned =>
           /\ \A id \in DOMAIN pre.DidRecords :
                  DidRecords[id].version =
                      counted(pre.DidRecords[id].version, MutatedDid(id))
           /\ \A id \in DOMAIN pre.StatusLists :
                  StatusLists[id].version =
                      counted(pre.StatusLists[id].version, MutatedList(id))
           /\ \A id \in DOMAIN pre.Schemas :
                  Schemas[id].version =
                      counted(pre.Schemas[id].version, MutatedSchema(id))
           /\ \A id \in DOMAIN DidRecords \ DOMAIN pre.DidRecords :
                  DidRecords[id].version = 0
           /\ \A id \in DOMAIN StatusLists \ DOMAIN pre.StatusLists :
                  StatusLists[id].version = 0
           /\ \A id \in DOMAIN Schemas \ DOMAIN pre.Schemas :
                  Schemas[id].version = 0

\* A status list has been mutated more often than the counter can count.
C5_Witness ==
    \E id \in DOMAIN StatusLists :
        /\ Mutations(events, "status_list_id", status_list_string_from_id(id)) > U64_MAX
        /\ StatusLists[id].version = U64_MAX

(***************************************************************************)
(* C6 as claimed: after every successful mutation of a DID, status list or *)
(* schema record its version is strictly greater than before, also when    *)
(* the version before was the counter's maximum.                           *)
(***************************************************************************)
C6_VersionStrictlyGreater ==
    LET grown(now, v, hit) == hit => now > v IN
    Returned =>
        /\ \A id \in DOMAIN pre.DidRecords :
               grown(DidRecords[id].version, pre.DidRecords[id].version, MutatedDid(id))
        /\ \A id \in DOMAIN pre.StatusLists :
               grown(StatusLists[id].version, pre.StatusLists[id].version,
                     MutatedList(id))
        /\ \A id \in DOMAIN pre.Schemas :
               grown(Schemas[id].version, pre.Schemas[id].version, MutatedSchema(id))

(***************************************************************************)
(* C6 amended: after every successful mutation of a DID, status list or    *)
(* schema record its version is strictly greater than before, except when  *)
(* the version before was the counter's maximum: then it is that maximum   *)
(* still.                                                                  *)
(***************************************************************************)
C6_VersionGreaterUntilMax ==
    LET grown(now, v, hit) ==
            hit => IF v = U64_MAX THEN now = U64_MAX ELSE now > v
    IN
    Returned =>
        /\ \A id \in DOMAIN pre.DidRecords :
               grown(DidRecords[id].version, pre.DidRecords[id].version, MutatedDid(id))
        /\ \A id \in DOMAIN pre.StatusLists :
               grown(StatusLists[id].version, pre.StatusLists[id].version,
                     MutatedList(id))
        /\ \A id \in DOMAIN pre.Schemas :
               grown(Schemas[id].version, pre.Schemas[id].version, MutatedSchema(id))

\* A DID whose version was the maximum has been mutated successfully.
C6_Witness ==
    /\ OnStoredDid
    /\ result = "Ok"
    /\ TargetBefore.version = U64_MAX

(***************************************************************************)
(* C7.  Key-set invariant: every DID record has at least one key and no    *)
(* two of its keys, revoked ones included, have the same public_key; an    *)
(* add_key or rotate_key whose new public key is one the DID already holds *)
(* (revoked or not, rotate_key with new = old included) does not succeed,  *)
(* and when it is signed by a live key of an active DID it fails with      *)
(* KeyAlreadyExists.                                                       *)
(***************************************************************************)
C7_KeySetInvariant ==
    /\ \A id \in DOMAIN DidRecords :
           LET keys == DidRecords[id].keys IN
           /\ Len(keys) >= 1
           /\ \A i, j \in 1..Len(keys) :
                  keys[i].public_key = keys[j].public_key => i = j
    /\ (OnStoredDid /\ call.cmd \in {"add_key", "rotate_key"}) =>
           LET added == IF call.cmd = "add_key" THEN call.public_key
                        ELSE call.new_public_key
           IN  has_key(TargetBefore, added) =>
                   /\ result # "Ok"
                   /\ (VerifiesUnderLiveKey /\ ~TargetBefore.deactivated) =>
                          result = "KeyAlreadyExists"

\* A rotate_key of a live key to itself has been refused.
C7_Witness ==
    /\ OnStoredDid
    /\ call.cmd = "rotate_key"
    /\ call.new_public_key = call.old_public_key
    /\ ~TargetBefore.keys[find_key(TargetBefore, call.old_public_key)].revoked
    /\ result = "KeyAlreadyExists"

(***************************************************************************)
(* C8.  Rotate, then the old key is powerless: a successful rotate_key     *)
(* marks old_pk revoked where it stands and appends new_pk, not revoked,   *)
(* with exactly the supplied roles; in every later state a call on that    *)
(* DID signed by old_pk fails with InvalidSignature, while a call signed   *)
(* by new_pk, as long as new_pk is not revoked and the DID is active, gets *)
(* past the signature check.                                               *)
(***************************************************************************)
RotatedBefore(old_or_new) ==
    {i \in 1..Len(pre.events) :
        /\ pre.events[i].name = "KeyRotated"
        /\ pre.events[i].did = did_string_from_did_id(TargetId)
        /\ pre.events[i][old_or_new] = call.did_signature.signer}

SignedOverPayload == call.did_signature.wf /\ call.did_signature.msg = CallPayload

C8_RotatedKeyPowerless ==
    /\ (OnStoredDid /\ call.cmd = "rotate_key" /\ result = "Ok") =>
           LET i == find_key(TargetBefore, call.old_public_key) IN
           /\ i # 0
           /\ DidRecords[TargetId].keys =
                  Append([TargetBefore.keys EXCEPT ![i].revoked = TRUE],
                         [public_key |-> call.new_public_key, roles |-> call.roles,
                          revoked |-> FALSE])
    /\ (OnStoredDid /\ SignedOverPayload /\ RotatedBefore("old_public_key") # {}) =>
           (result = "InvalidSignature" /\ StorageUnchanged)
    /\ (/\ OnStoredDid
        /\ SignedOverPayload
        /\ RotatedBefore("new_public_key") # {}
        /\ public_try_from(call.did_signature.signer)
        /\ ~TargetBefore.deactivated
        /\ \E k \in 1..Len(TargetBefore.keys) :
               /\ TargetBefore.keys[k].public_key = call.did_signature.signer
               /\ ~TargetBefore.keys[k].revoked) =>
           result \notin {"InvalidSignature", "InvalidDidSignature", "DidDeactivated"}

\* After a rotation an add_key signed by the old key has been refused.
C8_Witness ==
    /\ OnStoredDid
    /\ call.cmd = "add_key"
    /\ SignedOverPayload
    /\ RotatedBefore("old_public_key") # {}
    /\ result = "InvalidSignature"

(***************************************************************************)
(* C9.  create_did(pk, sig) succeeds only if no record is stored at the id *)
(* derived from pk and sig verifies under pk over the create payload; on   *)
(* success it inserts exactly the record {version 0, not deactivated,      *)
(* keys = [(pk, [Authentication], not revoked)], no services, no metadata} *)
(* at that id, changes no other record and deposits one DidCreated event.  *)
(***************************************************************************)
C9_CreateDid ==
    (Returned /\ call.cmd = "create_did" /\ result = "Ok") =>
        LET id == did_id_from_public_key(call.public_key) IN
        /\ id \notin DOMAIN pre.DidRecords
        /\ public_try_from(call.public_key)
        /\ call.did_signature.wf
        /\ call.did_signature.signer = call.public_key
        /\ call.did_signature.msg = create_did_payload(call.public_key)
        /\ DOMAIN DidRecords = DOMAIN pre.DidRecords \cup {id}
        /\ DidRecords[id] =
               [version |-> 0, deactivated |-> FALSE,
                keys |-> <<[public_key |-> call.public_key,
                            roles |-> <<"Authentication">>, revoked |-> FALSE]>>,
                services |-> <<>>, metadata |-> <<>>]
        /\ \A other \in DOMAIN pre.DidRecords : DidRecords[other] = pre.DidRecords[other]
        /\ StatusLists = pre.StatusLists
        /\ Schemas = pre.Schemas
        /\ events = Append(pre.events,
                           [name |-> "DidCreated", did |-> did_string_from_did_id(id)])

\* A second DID has been created beside one that was mutated before.
C9_Witness ==
    /\ Returned
    /\ call.cmd = "create_did"
    /\ result = "Ok"
    /\ \E other \in DOMAIN pre.DidRecords : pre.DidRecords[other].version > 0

(***************************************************************************)
(* C10.  Creation is not idempotent: once create_did, create_status_list   *)
(* or register_schema has succeeded, whatever happened to the record       *)
(* since, a further call with the same identifying arguments fails with    *)
(* DidAlreadyExists, StatusListAlreadyExists or SchemaAlreadyExists and    *)
(* leaves the record as it is; for create_did whatever the signature.      *)
(***************************************************************************)
Created(name, field, text) ==
    \E i \in 1..Len(pre.events) :
        pre.events[i].name = name /\ pre.events[i][field] = text

C10_CreationNotIdempotent ==
    (Returned /\ call.origin.signed) =>
        /\ (/\ call.cmd = "create_did"
            /\ Created("DidCreated", "did",
                       did_string_from_did_id(did_id_from_public_key(call.public_key))))
           => (result = "DidAlreadyExists" /\ StorageUnchanged)
        /\ (/\ call.cmd = "create_status_list"
            /\ Created("StatusListCreated", "status_list_id",
                       status_list_string_from_id(
                           status_list_id_from_parts(call.issuer_did, call.list_nonce))))
           => (result = "StatusListAlreadyExists" /\ StorageUnchanged)
        /\ (/\ call.cmd = "register_schema"
            /\ Created("SchemaRegistered", "schema_id",
                       schema_string_from_schema_id(
                           schema_id_from_schema(call.schema_json))))
           => (result = "SchemaAlreadyExists" /\ StorageUnchanged)

\* create_did for a deactivated DID, with bytes that are no signature, was refused.
C10_Witness ==
    /\ Returned
    /\ call.cmd = "create_did"
    /\ ~call.did_signature.wf
    /\ result = "DidAlreadyExists"
    /\ did_id_from_public_key(call.public_key) \in DOMAIN DidRecords
    /\ DidRecords[did_id_from_public_key(call.public_key)].deactivated

(***************************************************************************)
(* What the properties below say about a returned call on a status list.   *)
(***************************************************************************)
\* The returned call is a set_status from a signed origin and names a list
\* that was stored when the call started.
OnStoredList ==
    /\ Returned
    /\ call.cmd = "set_status"
    /\ call.origin.signed
    /\ LET id == decode_status_list_id(call.status_list_id) IN
       id.ok /\ id.val \in DOMAIN pre.StatusLists

ListId == decode_status_list_id(call.status_list_id).val
ListBefore == pre.StatusLists[ListId]
ListAfter == StatusLists[ListId]

(***************************************************************************)
(* C11.  Status-index bound: a set_status that succeeds is on a stored     *)
(* list and has status_index < 8 * |bitmap| of that list, and the byte     *)
(* status_index / 8 it writes is a byte of the bitmap; a set_status on a   *)
(* stored list with status_index >= 8 * |bitmap| never succeeds, and when  *)
(* it is made by the list's issuer it fails with StatusIndexOutOfBounds    *)
(* (the issuer is compared first, so another issuer gets IssuerMismatch);  *)
(* no call changes the length of the bitmap of a stored list.              *)
(***************************************************************************)
C11_StatusIndexBound ==
    /\ (Returned /\ call.cmd = "set_status" /\ result = "Ok") =>
           /\ OnStoredList
           /\ call.status_index < 8 * Len(ListBefore.bitmap)
           /\ (call.status_index \div 8) + 1 \in DOMAIN ListBefore.bitmap
    /\ (OnStoredList /\ call.status_index >= 8 * Len(ListBefore.bitmap)) =>
           /\ result # "Ok"
           /\ call.issuer_did = ListBefore.issuer_did =>
                  result = "StatusIndexOutOfBounds"
    /\ Returned =>
           \A id \in DOMAIN pre.StatusLists :
               /\ id \in DOMAIN StatusLists
               /\ Len(StatusLists[id].bitmap) = Len(pre.StatusLists[id].bitmap)

\* The issuer writes the first status past the end of a bitmap that already
\* holds a written status.
C11_Witness ==
    /\ OnStoredList
    /\ call.issuer_did = ListBefore.issuer_did
    /\ call.status_index = 8 * Len(ListBefore.bitmap)
    /\ ListBefore.version > 0
    /\ result = "StatusIndexOutOfBounds"

\* Status i of a bitmap: bit (i mod 8) of byte (i div 8), the bit of weight
\* 2^(i mod 8).
StatusBit(bitmap, i) == (bitmap[(i \div 8) + 1] \div Pow(2, i % 8)) % 2 = 1

(***************************************************************************)
(* C12.  A successful set_status(list, issuer, i, revoked) leaves status i *)
(* of the bitmap, least-significant bit first, equal to revoked and every  *)
(* other status as it was; it leaves the list's issuer_did and list_nonce, *)
(* every other list, and the DID and schema records as they were, and adds *)
(* one to version (which stays at its maximum once there).  A set_status   *)
(* by the list's issuer with an index inside the bitmap succeeds whatever  *)
(* the status was before, also when it already equals revoked.             *)
(***************************************************************************)
C12_SetStatusFrame ==
    /\ (OnStoredList /\ result = "Ok") =>
           /\ DOMAIN ListAfter.bitmap = DOMAIN ListBefore.bitmap
           /\ \A k \in DOMAIN ListAfter.bitmap : ListAfter.bitmap[k] \in 0..255
           /\ \A i \in 0..(8 * Len(ListBefore.bitmap) - 1) :
                  StatusBit(ListAfter.bitmap, i) =
                      IF i = call.status_index THEN call.revoked
                      ELSE StatusBit(ListBefore.bitmap, i)
           /\ ListAfter.issuer_did = ListBefore.issuer_did
           /\ ListAfter.list_nonce = ListBefore.list_nonce
           /\ ListAfter.version =
                  IF ListBefore.version < U64_MAX THEN ListBefore.version + 1
                  ELSE U64_MAX
           /\ DOMAIN StatusLists = DOMAIN pre.StatusLists
           /\ \A id \in DOMAIN StatusLists \ {ListId} :
                  StatusLists[id] = pre.StatusLists[id]
           /\ DidRecords = pre.DidRecords
           /\ Schemas = pre.Schemas
    /\ ( /\ OnStoredList
         /\ call.issuer_did = ListBefore.issuer_did
         /\ call.status_index < 8 * Len(ListBefore.bitmap) ) =>
           result = "Ok"

\* Status 10 is cleared when it is already clear and status 9, in the same
\* byte, is set: the byte stays 0x02.
C12_Witness ==
    /\ OnStoredList
    /\ result = "Ok"
    /\ ~call.revoked
    /\ call.status_index = 10
    /\ ~StatusBit(ListBefore.bitmap, 10)
    /\ StatusBit(ListBefore.bitmap, 9)
    /\ ListAfter.bitmap[2] = 2

\* The least number of bytes that hold n bits.
BytesFor(n) == IF n % 8 = 0 THEN n \div 8 ELSE (n \div 8) + 1

(***************************************************************************)
(* C13.  create_status_list(issuer, nonce, length) from a signed origin    *)
(* fails with InvalidListNonce when |nonce| < 16, otherwise with           *)
(* StatusListAlreadyExists when the derived id is stored, otherwise with   *)
(* StatusIndexOutOfBounds when length + 7 exceeds the largest 32-bit       *)
(* value, and otherwise succeeds and stores under the derived id the       *)
(* record {version 0, issuer, nonce, bitmap of ceil(length / 8) zero       *)
(* bytes}, leaving the other lists as they were; every stored list has a   *)
(* nonce of at least 16 bytes.                                             *)
(***************************************************************************)
C13_CreateStatusList ==
    /\ (Returned /\ call.cmd = "create_status_list" /\ call.origin.signed) =>
           LET id == status_list_id_from_parts(call.issuer_did, call.list_nonce) IN
           /\ result =
                  IF Len(call.list_nonce) < 16 THEN "InvalidListNonce"
                  ELSE IF id \in DOMAIN pre.StatusLists THEN "StatusListAlreadyExists"
                  ELSE IF call.list_length + 7 > U32_MAX THEN "StatusIndexOutOfBounds"
                  ELSE "Ok"
           /\ result = "Ok" =>
                  /\ DOMAIN StatusLists = DOMAIN pre.StatusLists \cup {id}
                  /\ \A other \in DOMAIN pre.StatusLists :
                         StatusLists[other] = pre.StatusLists[other]
                  /\ StatusLists[id] =
                         [version |-> 0,
                          issuer_did |-> call.issuer_did,
                          list_nonce |-> call.list_nonce,
                          bitmap |-> [k \in 1..BytesFor(call.list_length) |-> 0]]
    /\ \A id \in DOMAIN StatusLists : Len(StatusLists[id].list_nonce) >= 16

\* A list of 9 statuses is created beside another list: its bitmap has 2
\* bytes.
C13_Witness ==
    /\ Returned
    /\ call.cmd = "create_status_list"
    /\ result = "Ok"
    /\ call.list_length = 9
    /\ pre.StatusLists # <<>>
    /\ Len(StatusLists[status_list_id_from_parts(call.issuer_did,
                                                 call.list_nonce)].bitmap) = 2

(***************************************************************************)
(* What the properties below say about a returned call on a schema.        *)
(***************************************************************************)
\* The returned call is a deprecate_schema from a signed origin and names a
\* schema that was stored when the call started.
OnStoredSchema ==
    /\ Returned
    /\ call.cmd = "deprecate_schema"
    /\ call.origin.signed
    /\ LET id == decode_schema_id(call.schema_id) IN
       id.ok /\ id.val \in DOMAIN pre.Schemas

SchemaId == decode_schema_id(call.schema_id).val
SchemaBefore == pre.Schemas[SchemaId]
SchemaAfter == Schemas[SchemaId]

(***************************************************************************)
(* C14.  deprecate_schema on a stored schema that is not deprecated        *)
(* succeeds if and only if the supplied issuer_did equals the recorded     *)
(* one, then setting deprecated and changing nothing else of the record    *)
(* but version, and otherwise fails with IssuerMismatch leaving the        *)
(* schemas as they were.  A schema that is deprecated stays stored and     *)
(* deprecated through every call, and deprecate_schema on it fails with    *)
(* SchemaDeprecated whatever the supplied issuer.                          *)
(***************************************************************************)
C14_Deprecation ==
    /\ (OnStoredSchema /\ ~SchemaBefore.deprecated) =>
           /\ result = "Ok" <=> call.issuer_did = SchemaBefore.issuer_did
           /\ result # "Ok" => result = "IssuerMismatch" /\ Schemas = pre.Schemas
           /\ result = "Ok" =>
                  /\ SchemaAfter.deprecated
                  /\ [SchemaAfter EXCEPT !.deprecated = FALSE,
                                         !.version = SchemaBefore.version]
                         = SchemaBefore
    /\ (OnStoredSchema /\ SchemaBefore.deprecated) =>
           result = "SchemaDeprecated" /\ Schemas = pre.Schemas
    /\ Returned =>
           \A id \in DOMAIN pre.Schemas :
               pre.Schemas[id].deprecated =>
                   id \in DOMAIN Schemas /\ Schemas[id].deprecated

\* A deprecated schema is deprecated again by an issuer other than the
\* recorded one.
C14_Witness ==
    /\ OnStoredSchema
    /\ SchemaBefore.deprecated
    /\ call.issuer_did # SchemaBefore.issuer_did
    /\ result = "SchemaDeprecated"

\* Some schema stored when the call started was registered with the bytes the
\* returned register_schema carries: its record holds their hash.
SchemaBytesStored ==
    \E id \in DOMAIN pre.Schemas :
        pre.Schemas[id].schema_hash = blake2_256(call.schema_json)

(***************************************************************************)
(* C15.  Schema ids depend only on the schema bytes: a register_schema     *)
(* from a signed origin whose schema bytes were registered before fails    *)
(* with SchemaAlreadyExists whatever its schema_uri and issuer_did and     *)
(* changes nothing, and one whose schema bytes were not registered before  *)
(* succeeds and stores its record under schema_id_from_schema of the       *)
(* bytes; no call changes the issuer_did, schema_uri or schema_hash of a   *)
(* stored schema.                                                          *)
(***************************************************************************)
C15_SchemaIdFromBytes ==
    /\ (Returned /\ call.cmd = "register_schema" /\ call.origin.signed) =>
           /\ SchemaBytesStored =>
                  result = "SchemaAlreadyExists" /\ Schemas = pre.Schemas
           /\ ~SchemaBytesStored =>
                  LET id == schema_id_from_schema(call.schema_json) IN
                  /\ result = "Ok"
                  /\ DOMAIN Schemas = DOMAIN pre.Schemas \cup {id}
                  /\ Schemas[id].issuer_did = call.issuer_did
                  /\ Schemas[id].schema_uri = call.schema_uri
                  /\ Schemas[id].schema_hash = blake2_256(call.schema_json)
    /\ Returned =>
           \A id \in DOMAIN pre.Schemas :
               /\ id \in DOMAIN Schemas
               /\ Schemas[id].issuer_did = pre.Schemas[id].issuer_did
               /\ Schemas[id].schema_uri = pre.Schemas[id].schema_uri
               /\ Schemas[id].schema_hash = pre.Schemas[id].schema_hash

\* Schema bytes registered by one issuer under one uri are registered again by
\* the other issuer under another uri, beside a schema of other bytes.
C15_Witness ==
    /\ Returned
    /\ call.cmd = "register_schema"
    /\ result = "SchemaAlreadyExists"
    /\ LET stored == pre.Schemas[schema_id_from_schema(call.schema_json)] IN
       /\ stored.issuer_did # call.issuer_did
       /\ stored.schema_uri # call.schema_uri
    /\ Cardinality(DOMAIN Schemas) = 2

(***************************************************************************)
(* C16.  Logical immortality: no step removes an identifier from           *)
(* DidRecords, StatusLists or Schemas, whatever the call and its result,   *)
(* so an identifier once present is present in every later state.          *)
(***************************************************************************)
C16_NoRecordRemoved ==
    [][ /\ DOMAIN DidRecords \subseteq DOMAIN DidRecords'
        /\ DOMAIN StatusLists \subseteq DOMAIN StatusLists'
        /\ DOMAIN Schemas \subseteq DOMAIN Schemas' ]_vars

\* The last live key of a DID is revoked: the record is still stored, with
\* every key revoked.
C16_Witness ==
    /\ OnStoredDid
    /\ result = "Ok"
    /\ call.cmd = "revoke_key"
    /\ TargetId \in DOMAIN DidRecords
    /\ \A i \in DOMAIN DidRecords[TargetId].keys :
           DidRecords[TargetId].keys[i].revoked

(***************************************************************************)
(* The entity bytes the hash inputs are compared for: every byte string of *)
(* at most MaxEntityLen bytes over the genesis byte and the letters "C",   *)
(* "S" and "T" at which the three domain tags part, and the values the     *)
(* calls carry.                                                            *)
(***************************************************************************)
MaxEntityLen == 2

EntityAlphabet == {0, 67, 83, 84}

EntityBytes ==
    UNION {[1..n -> EntityAlphabet] : n \in 0..MaxEntityLen}
        \cup {PK1, PK2, JSON1, JSON2, DID1_TEXT, DID2_TEXT, NONCE_OK, NONCE_SHORT}

MaterialsDiffer ==
    /\ \A public_key \in EntityBytes, issuer_did \in EntityBytes,
          list_nonce \in EntityBytes :
           did_material(public_key) # status_list_material(issuer_did, list_nonce)
    /\ \A public_key \in EntityBytes, schema_json \in EntityBytes :
           did_material(public_key) # schema_material(schema_json)
    /\ \A issuer_did \in EntityBytes, list_nonce \in EntityBytes,
          schema_json \in EntityBytes :
           status_list_material(issuer_did, list_nonce) # schema_material(schema_json)

(***************************************************************************)
(* C17.  Identifier disjointness: the bytes hashed for a DID id, for a     *)
(* status-list id and for a schema id are pairwise different byte strings  *)
(* for all entity bytes, and in every reachable state no identifier is     *)
(* present in two of DidRecords, StatusLists and Schemas.                  *)
(***************************************************************************)
C17_IdentifiersDisjoint ==
    /\ MaterialsDiffer
    /\ DOMAIN DidRecords \cap DOMAIN StatusLists = {}
    /\ DOMAIN DidRecords \cap DOMAIN Schemas = {}
    /\ DOMAIN StatusLists \cap DOMAIN Schemas = {}

\* A DID, a status list, and a schema whose bytes are the bytes of the DID's
\* public key are stored.
C17_Witness ==
    /\ Returned
    /\ result = "Ok"
    /\ did_id_from_public_key(PK1) \in DOMAIN DidRecords
    /\ schema_id_from_schema(PK1) \in DOMAIN Schemas
    /\ StatusLists # <<>>

(***************************************************************************)
(* The field values the signing payloads are compared for, and the calls   *)
(* of each command that carry them.                                        *)
(***************************************************************************)
DidCommands == DidMutations \cup {"create_did"}

FieldBytes == {<<>>, <<0>>, PK1, PK2, DID1_TEXT, DID1_RAW}

FieldRoles == {<<>>, <<"KeyAgreement">>, <<"Authentication", "KeyAgreement">>}

FieldServices ==
    {[id |-> i, service_type |-> t, endpoint |-> e] :
        i \in FieldBytes, t \in {<<>>, <<1>>}, e \in {<<>>, <<1>>}}

FieldEntries == {[key |-> k, value |-> v] : k \in FieldBytes, v \in FieldBytes}

CallsOf ==
    [cmd \in DidCommands |->
        CASE cmd = "create_did" ->
                 {[cmd |-> cmd, public_key |-> k] : k \in FieldBytes}
          [] cmd \in {"add_key", "update_roles"} ->
                 {[cmd |-> cmd, did_id |-> d, public_key |-> k, roles |-> r] :
                     d \in FieldBytes, k \in FieldBytes, r \in FieldRoles}
          [] cmd = "revoke_key" ->
                 {[cmd |-> cmd, did_id |-> d, public_key |-> k] :
                     d \in FieldBytes, k \in FieldBytes}
          [] cmd = "deactivate_did" ->
                 {[cmd |-> cmd, did_id |-> d] : d \in FieldBytes}
          [] cmd = "add_service" ->
                 {[cmd |-> cmd, did_id |-> d, service |-> v] :
                     d \in FieldBytes, v \in FieldServices}
          [] cmd = "remove_service" ->
                 {[cmd |-> cmd, did_id |-> d, service_id |-> i] :
                     d \in FieldBytes, i \in FieldBytes}
          [] cmd = "set_metadata" ->
                 {[cmd |-> cmd, did_id |-> d, entry |-> e] :
                     d \in FieldBytes, e \in FieldEntries}
          [] cmd = "remove_metadata" ->
                 {[cmd |-> cmd, did_id |-> d, key |-> k] :
                     d \in FieldBytes, k \in FieldBytes}
          [] cmd = "rotate_key" ->
                 {[cmd |-> cmd, did_id |-> d, old_public_key |-> o,
                   new_public_key |-> n, roles |-> r] :
                     d \in FieldBytes, o \in FieldBytes, n \in FieldBytes,
                     r \in FieldRoles}]

PayloadsOf == [cmd \in DidCommands |-> {PayloadOf(c) : c \in CallsOf[cmd]}]

PayloadsDiffer ==
    \A c1 \in DidCommands, c2 \in DidCommands :
        c1 # c2 => PayloadsOf[c1] \cap PayloadsOf[c2] = {}

\* The signature of the returned call is a well-formed signature over the
\* payload of a call of another command.
SignedForOtherCommand ==
    /\ call.did_signature.wf
    /\ \E cmd \in DidCommands \ {call.cmd} :
           call.did_signature.msg \in PayloadsOf[cmd]

(***************************************************************************)
(* C18.  Cross-command replay is prevented: the signing payloads of two    *)
(* different DID commands are never equal, whatever their field values,    *)
(* and a call that carries a signature made over the payload of another    *)
(* command fails with InvalidSignature once it reaches the verification    *)
(* (one of the nine calls from a signed origin on a stored DID, or a       *)
(* create_did from a signed origin of a well-formed key with no DID yet).  *)
(***************************************************************************)
C18_NoCrossCommandReplay ==
    /\ PayloadsDiffer
    /\ (OnStoredDid /\ SignedForOtherCommand) => result = "InvalidSignature"
    /\ ( /\ Returned
         /\ call.cmd = "create_did"
         /\ call.origin.signed
         /\ public_try_from(call.public_key)
         /\ did_id_from_public_key(call.public_key) \notin DOMAIN pre.DidRecords
         /\ SignedForOtherCommand ) =>
           result = "InvalidSignature"

\* update_roles for a key of the DID carries the signature a live key of the
\* DID made for add_key with the same did_id, public_key and roles.
C18_Witness ==
    /\ OnStoredDid
    /\ call.cmd = "update_roles"
    /\ has_key(TargetBefore, call.public_key)
    /\ call.did_signature =
           sign(PK1, add_key_payload(call.did_id, call.public_key, call.roles))
    /\ has_key(TargetBefore, PK1)
    /\ ~TargetBefore.keys[1].revoked
    /\ result = "InvalidSignature"

\* Version v after one more mutation.
Bumped(v) == IF v < U64_MAX THEN v + 1 ELSE U64_MAX

(***************************************************************************)
(* C19.  Same-command replay is not prevented: whether a DID command is    *)
(* authorized depends only on its bytes and on the keys of the DID, never  *)
(* on what was accepted before.  A call on a stored DID whose signature    *)
(* verifies over its payload under a non-revoked key passes the signature  *)
(* check, also when the same bytes were accepted earlier; on an active DID *)
(* set_metadata then succeeds and leaves the submitted value under the     *)
(* key, whatever value was there, and add_service succeeds whenever no     *)
(* service with that id is present, also after one was removed; each       *)
(* success deposits its event and adds one to version (which stays at its  *)
(* maximum once there).                                                    *)
(***************************************************************************)
C19_SameCommandReplay ==
    /\ (OnStoredDid /\ VerifiesUnderLiveKey) =>
           /\ result \notin {"InvalidSignature", "InvalidDidSignature", "DidNotFound"}
           /\ ~TargetBefore.deactivated => result # "DidDeactivated"
           /\ result = "Ok" =>
                  /\ DidRecords[TargetId].version = Bumped(TargetBefore.version)
                  /\ Len(events) = Len(pre.events) + 1
    /\ ( /\ OnStoredDid
         /\ VerifiesUnderLiveKey
         /\ ~TargetBefore.deactivated
         /\ call.cmd = "set_metadata" ) =>
           /\ result = "Ok"
           /\ \E i \in DOMAIN DidRecords[TargetId].metadata :
                  DidRecords[TargetId].metadata[i] = call.entry
           /\ events[Len(events)].name = "MetadataSet"
    /\ ( /\ OnStoredDid
         /\ VerifiesUnderLiveKey
         /\ ~TargetBefore.deactivated
         /\ call.cmd = "add_service"
         /\ \A i \in DOMAIN TargetBefore.services :
                TargetBefore.services[i].id # call.service.id ) =>
           /\ result = "Ok"
           /\ \E i \in DOMAIN DidRecords[TargetId].services :
                  DidRecords[TargetId].services[i] = call.service
           /\ events[Len(events)].name = "ServiceAdded"

\* The one call accepted since the DID was created was a set_metadata that left
\* the entry the returned set_metadata carries, signed by the DID's only key:
\* the returned call repeats its bytes, and succeeds.
C19_Witness ==
    /\ OnStoredDid
    /\ call.cmd = "set_metadata"
    /\ Len(pre.events) = 2
    /\ pre.events[2] =
           [name |-> "MetadataSet", did |-> did_string_from_did_id(TargetId),
            key |-> call.entry.key]
    /\ TargetBefore.metadata = <<call.entry>>
    /\ Len(TargetBefore.keys) = 1
    /\ call.did_signature = sign(TargetBefore.keys[1].public_key, CallPayload)
    /\ result = "Ok"
    /\ events[3] = pre.events[2]

\* The other textual form of an identifier: without the "did:qsb:" prefix if it
\* has one, with it if it has none.
OtherForm(did_id) ==
    IF starts_with(did_id, DID_PREFIX) THEN strip_prefix(did_id, DID_PREFIX)
    ELSE DID_PREFIX \o did_id

\* The returned call with its identifier in the other form.
CallInOtherForm == [call EXCEPT !.did_id = OtherForm(@)]

FormsDiffer ==
    /\ \A did_id \in FieldBytes : decode_did_id(OtherForm(did_id)) = decode_did_id(did_id)
    /\ \A cmd \in DidMutations : \A c \in CallsOf[cmd] :
           PayloadOf([c EXCEPT !.did_id = OtherForm(@)]) # PayloadOf(c)

(***************************************************************************)
(* C20.  The prefixed form "did:qsb:<b58>" and the raw form "<b58>" of an  *)
(* identifier decode to the same DID id, so a command addressed with       *)
(* either targets the same record, but the signing payloads of the two     *)
(* differ, and a call on a stored DID that carries a signature made over   *)
(* the payload of the same command with the identifier in the other form   *)
(* fails with InvalidSignature.                                            *)
(***************************************************************************)
C20_FormsNotInterchangeable ==
    /\ FormsDiffer
    /\ OnStoredDid =>
           /\ decode_did_id(OtherForm(call.did_id)) = Ok(TargetId)
           /\ PayloadOf(CallInOtherForm) # CallPayload
           /\ ( /\ call.did_signature.wf
                /\ call.did_signature.msg = PayloadOf(CallInOtherForm) ) =>
                  result = "InvalidSignature"

\* add_key addressed with the raw form carries the signature the DID's live
\* key made for the same add_key addressed with the prefixed form.
C20_Witness ==
    /\ OnStoredDid
    /\ call.cmd = "add_key"
    /\ ~starts_with(call.did_id, DID_PREFIX)
    /\ ~has_key(TargetBefore, call.public_key)
    /\ ~TargetBefore.deactivated
    /\ ~TargetBefore.keys[1].revoked
    /\ call.did_signature =
           sign(TargetBefore.keys[1].public_key,
                add_key_payload(DID_PREFIX \o call.did_id, call.public_key,
                                call.roles))
    /\ result = "InvalidSignature"

(***************************************************************************)
(* What a registry call returns and leaves, for every signed account and   *)
(* every signature of RegistryInputs, is what it returns and leaves for    *)
(* Alice and bytes that are no signature.                                  *)
(***************************************************************************)
SignedAccounts == {origin \in RegistryInputs.origins : origin.signed}

SignatureIgnored ==
    \A origin \in SignedAccounts,
       did_signature \in RegistryInputs.unverified_signatures,
       issuer_did \in RegistryInputs.issuers :
        /\ \A list_nonce \in RegistryInputs.nonces,
              list_length \in RegistryInputs.lengths :
               create_status_list_call(origin, issuer_did, list_nonce, list_length,
                                       did_signature)
                   = create_status_list_call(Alice, issuer_did, list_nonce, list_length,
                                             MalformedSignature)
        /\ \A status_list_id \in RegistryInputs.status_list_ids,
              status_index \in RegistryInputs.indices, revoked \in BOOLEAN :
               set_status_call(origin, status_list_id, issuer_did, status_index,
                               revoked, did_signature)
                   = set_status_call(Alice, status_list_id, issuer_did, status_index,
                                     revoked, MalformedSignature)
        /\ \A schema_json \in RegistryInputs.schema_jsons,
              schema_uri \in RegistryInputs.schema_uris :
               register_schema_call(origin, schema_json, schema_uri, issuer_did,
                                    did_signature)
                   = register_schema_call(Alice, schema_json, schema_uri, issuer_did,
                                          MalformedSignature)
        /\ \A schema_id \in RegistryInputs.schema_ids :
               deprecate_schema_call(origin, schema_id, issuer_did, did_signature)
                   = deprecate_schema_call(Alice, schema_id, issuer_did,
                                           MalformedSignature)

(***************************************************************************)
(* C21.  The signature argument of create_status_list, set_status,         *)
(* register_schema and deprecate_schema is unverified: in every reachable  *)
(* state between two calls, two executions of one of these commands that differ only in the   *)
(* signature bytes and in the signed account return the same result and    *)
(* leave the same mapping and event; so a set_status with an index inside  *)
(* the bitmap and a deprecate_schema of a schema not yet deprecated        *)
(* succeed for every account and signature once they carry the recorded    *)
(* issuer_did bytes.                                                       *)
(***************************************************************************)
C21_SignatureUnverified ==
    /\ pc = "idle" => SignatureIgnored
    /\ ( /\ OnStoredList
         /\ call.issuer_did = ListBefore.issuer_did
         /\ call.status_index < 8 * Len(ListBefore.bitmap) ) =>
           result = "Ok"
    /\ ( /\ OnStoredSchema
         /\ call.issuer_did = SchemaBefore.issuer_did
         /\ ~SchemaBefore.deprecated ) =>
           result = "Ok"

\* Bob flips a status of the list with bytes that are no signature.
C21_Witness ==
    /\ OnStoredList
    /\ call.origin = Bob
    /\ call.did_signature = MalformedSignature
    /\ call.revoked
    /\ result = "Ok"
    /\ StatusBit(ListAfter.bitmap, call.status_index)
    /\ ~StatusBit(ListBefore.bitmap, call.status_index)

\* Every key of the record is revoked.
every_key_revoked(details) == \A i \in 1..Len(details.keys) : details.keys[i].revoked

(***************************************************************************)
(* C22.  Revoking the last key freezes the DID.  A revoke_key of a key     *)
(* that is stored and not revoked, on a DID that is not deactivated,       *)
(* signed by a live key, succeeds, also when the key revoked is the        *)
(* signing key and the only key not revoked.  A record whose keys are all  *)
(* revoked is left as it is by every call; each of the nine commands       *)
(* addressed to it fails, with InvalidSignature when the signature is      *)
(* well formed; and such a record is never deactivated.                    *)
(***************************************************************************)
C22_LastKeyRevokedFreezes ==
    /\ ( /\ OnStoredDid
         /\ call.cmd = "revoke_key"
         /\ VerifiesUnderLiveKey
         /\ ~TargetBefore.deactivated
         /\ \E i \in 1..Len(TargetBefore.keys) :
                /\ TargetBefore.keys[i].public_key = call.public_key
                /\ ~TargetBefore.keys[i].revoked ) =>
           /\ result = "Ok"
           /\ \A i \in 1..Len(TargetBefore.keys) :
                  TargetBefore.keys[i].public_key = call.public_key =>
                      DidRecords[TargetId].keys[i].revoked
    /\ Returned =>
           \A did_id \in DOMAIN pre.DidRecords :
               every_key_revoked(pre.DidRecords[did_id]) =>
                   DidRecords[did_id] = pre.DidRecords[did_id]
    /\ (OnStoredDid /\ every_key_revoked(TargetBefore)) =>
           /\ result # "Ok"
           /\ call.did_signature.wf => result = "InvalidSignature"
    /\ \A did_id \in DOMAIN DidRecords :
           every_key_revoked(DidRecords[did_id]) => ~DidRecords[did_id].deactivated

\* The only key of a DID was revoked by itself; a later deactivate_did signed by
\* that key over the right payload is refused and the DID stays active.
C22_Witness ==
    /\ OnStoredDid
    /\ call.cmd = "deactivate_did"
    /\ Len(TargetBefore.keys) = 1
    /\ TargetBefore.keys[1].revoked
    /\ call.did_signature = sign(TargetBefore.keys[1].public_key, CallPayload)
    /\ result = "InvalidSignature"
    /\ ~DidRecords[TargetId].deactivated

\* The services and the metadata of the target DID before and after the call.
ServicesBefore == TargetBefore.services
ServicesAfter == DidRecords[TargetId].services
MetadataBefore == TargetBefore.metadata
MetadataAfter == DidRecords[TargetId].metadata

\* Where the id or the key is in a sequence of services or entries; 0 if nowhere.
service_index(services, id) ==
    IF \E i \in 1..Len(services) : services[i].id = id
    THEN CHOOSE i \in 1..Len(services) : services[i].id = id
    ELSE 0

metadata_index(metadata, key) ==
    IF \E i \in 1..Len(metadata) : metadata[i].key = key
    THEN CHOOSE i \in 1..Len(metadata) : metadata[i].key = key
    ELSE 0

Elements(seq) == {seq[i] : i \in 1..Len(seq)}

\* The call passed the signature check on a DID that is not deactivated.
ReachedDocument == OnStoredDid /\ VerifiesUnderLiveKey /\ ~TargetBefore.deactivated

(***************************************************************************)
(* C23.  Services are unique by id and metadata entries by key in every    *)
(* record of every reachable state.  An authorized add_service with an id  *)
(* already stored fails with ServiceAlreadyExists; an authorized           *)
(* remove_service or remove_metadata of an id or key that is not stored    *)
(* fails with ServiceNotFound or MetadataNotFound, and otherwise succeeds  *)
(* and removes exactly the one entry named, leaving every other entry.     *)
(***************************************************************************)
C23_UniqueServicesAndMetadata ==
    /\ \A did_id \in DOMAIN DidRecords :
           LET details == DidRecords[did_id] IN
           /\ \A i, j \in 1..Len(details.services) :
                  details.services[i].id = details.services[j].id => i = j
           /\ \A i, j \in 1..Len(details.metadata) :
                  details.metadata[i].key = details.metadata[j].key => i = j
    /\ (ReachedDocument /\ call.cmd = "add_service") =>
           IF service_index(ServicesBefore, call.service.id) # 0
           THEN result = "ServiceAlreadyExists"
           ELSE result = "Ok" /\ ServicesAfter = Append(ServicesBefore, call.service)
    /\ (ReachedDocument /\ call.cmd = "remove_service") =>
           LET index == service_index(ServicesBefore, call.service_id) IN
           IF index = 0 THEN result = "ServiceNotFound"
           ELSE /\ result = "Ok"
                /\ Len(ServicesAfter) = Len(ServicesBefore) - 1
                /\ Elements(ServicesAfter)
                       = Elements(ServicesBefore) \ {ServicesBefore[index]}
                /\ MetadataAfter = MetadataBefore
    /\ (ReachedDocument /\ call.cmd = "remove_metadata") =>
           LET index == metadata_index(MetadataBefore, call.key) IN
           IF index = 0 THEN result = "MetadataNotFound"
           ELSE /\ result = "Ok"
                /\ Len(MetadataAfter) = Len(MetadataBefore) - 1
                /\ Elements(MetadataAfter)
                       = Elements(MetadataBefore) \ {MetadataBefore[index]}
                /\ ServicesAfter = ServicesBefore

\* add_service is refused for an id that is stored with another endpoint, in a
\* record that holds two services.
C23_Witness ==
    /\ ReachedDocument
    /\ call.cmd = "add_service"
    /\ result = "ServiceAlreadyExists"
    /\ Len(ServicesBefore) = 2
    /\ call.service \notin Elements(ServicesBefore)

SignerIndex ==
    CHOOSE i \in 1..Len(TargetBefore.keys) :
        TargetBefore.keys[i].public_key = call.did_signature.signer
SignerRoles == TargetBefore.keys[SignerIndex].roles

\* The key is in the record, and in it as a key that is not revoked.
Held(details, public_key) ==
    \E i \in 1..Len(details.keys) : details.keys[i].public_key = public_key
HeldLive(details, public_key) ==
    \E i \in 1..Len(details.keys) :
        details.keys[i].public_key = public_key /\ ~details.keys[i].revoked

\* What a key command returns once the signature check has passed, from the
\* public keys and the revoked and deactivated flags of the record alone.
ResultWithoutRoles ==
    IF TargetBefore.deactivated THEN "DidDeactivated"
    ELSE CASE call.cmd = "add_key" ->
                  IF Held(TargetBefore, call.public_key) THEN "KeyAlreadyExists"
                  ELSE "Ok"
           [] call.cmd \in {"revoke_key", "update_roles"} ->
                  IF ~Held(TargetBefore, call.public_key) THEN "KeyNotFound"
                  ELSE IF ~HeldLive(TargetBefore, call.public_key)
                  THEN "KeyAlreadyRevoked"
                  ELSE "Ok"
           [] call.cmd = "rotate_key" ->
                  IF Held(TargetBefore, call.new_public_key) THEN "KeyAlreadyExists"
                  ELSE IF ~Held(TargetBefore, call.old_public_key) THEN "KeyNotFound"
                  ELSE IF ~HeldLive(TargetBefore, call.old_public_key)
                  THEN "KeyAlreadyRevoked"
                  ELSE "Ok"
           [] OTHER -> "Ok"

(***************************************************************************)
(* C25.  No role-to-command policy.  A key command on a stored DID passes  *)
(* the signature check exactly when the signature verifies over the        *)
(* command's payload under a key of the DID that is not revoked, whatever  *)
(* the roles of that key; what it then returns is fixed by the public      *)
(* keys and the revoked and deactivated flags of the record.  A successful *)
(* update_roles changes nothing but the roles of the key it names and the  *)
(* version, so it changes no later authorization.                          *)
(***************************************************************************)
C25_NoRolePolicy ==
    /\ OnStoredDid =>
           IF VerifiesUnderLiveKey THEN result = ResultWithoutRoles
           ELSE result \in {"InvalidSignature", "InvalidDidSignature"}
    /\ (OnStoredDid /\ call.cmd = "update_roles" /\ result = "Ok") =>
           LET after == DidRecords[TargetId] IN
           /\ Len(after.keys) = Len(TargetBefore.keys)
           /\ \A i \in 1..Len(after.keys) :
                  /\ after.keys[i].public_key = TargetBefore.keys[i].public_key
                  /\ after.keys[i].revoked = TargetBefore.keys[i].revoked
                  /\ after.keys[i].roles =
                         IF after.keys[i].public_key = call.public_key
                         THEN call.roles ELSE TargetBefore.keys[i].roles
           /\ after.deactivated = TargetBefore.deactivated
           /\ after.services = TargetBefore.services
           /\ after.metadata = TargetBefore.metadata

\* A key that holds no role, or the KeyAgreement role alone, revokes the other
\* key of the DID.
C25_Witness ==
    /\ OnStoredDid
    /\ VerifiesUnderLiveKey
    /\ SignerRoles \in {<<>>, <<"KeyAgreement">>}
    /\ call.cmd = "revoke_key"
    /\ call.public_key # call.did_signature.signer
    /\ result = "Ok"

\* The key the returned revoke_key, update_roles or rotate_key acts on.
KeyActedOn ==
    IF call.cmd = "rotate_key" THEN call.old_public_key ELSE call.public_key

(***************************************************************************)
(* C26.  The key sequence of a DID is append-only: no call shortens it,    *)
(* the public_key at an index never changes and revoked never goes from    *)
(* true to false.  An authorized update_roles, revoke_key or rotate_key    *)
(* (to a key the DID does not hold) on a key of an active DID that is      *)
(* already revoked fails with KeyAlreadyRevoked.                           *)
(***************************************************************************)
C26_KeysAppendOnly ==
    /\ Returned =>
           \A did_id \in DOMAIN pre.DidRecords :
               LET before == pre.DidRecords[did_id].keys
                   after == DidRecords[did_id].keys
               IN  /\ Len(before) <= Len(after)
                   /\ \A i \in 1..Len(before) :
                          /\ after[i].public_key = before[i].public_key
                          /\ before[i].revoked => after[i].revoked
    /\ ( /\ OnStoredDid
         /\ call.cmd \in {"update_roles", "revoke_key", "rotate_key"}
         /\ VerifiesUnderLiveKey
         /\ ~TargetBefore.deactivated
         /\ Held(TargetBefore, KeyActedOn)
         /\ ~HeldLive(TargetBefore, KeyActedOn)
         /\ call.cmd = "rotate_key" => ~Held(TargetBefore, call.new_public_key) ) =>
           result = "KeyAlreadyRevoked"

\* A key was revoked; a rotate_key of it to a key the DID does not hold, signed by
\* the other key of the DID, is refused.
C26_Witness ==
    /\ OnStoredDid
    /\ call.cmd = "rotate_key"
    /\ VerifiesUnderLiveKey
    /\ ~Held(TargetBefore, call.new_public_key)
    /\ result = "KeyAlreadyRevoked"
    /\ DidRecords[TargetId].keys = TargetBefore.keys

\* Some key of the record is not revoked and is a well-formed ML-DSA-44 public key:
\* some signature can pass verify_did_signature.
can_authorize(details) ==
    \E i \in 1..Len(details.keys) :
        ~details.keys[i].revoked /\ public_try_from(details.keys[i].public_key)

(***************************************************************************)
(* C27.  Every key stored in a DID's key set is a well-formed ML-DSA-44    *)
(* public key: add_key and rotate_key fail with InvalidPublicKey when the  *)
(* key they are to store is malformed, as create_did does, so a successful *)
(* rotate_key leaves the DID with a key that can authorize further         *)
(* commands.                                                               *)
(***************************************************************************)
C27_StoredKeysWellFormed ==
    /\ \A did_id \in DOMAIN DidRecords :
           \A i \in 1..Len(DidRecords[did_id].keys) :
               public_try_from(DidRecords[did_id].keys[i].public_key)
    /\ ( /\ Returned
         /\ call.cmd = "create_did"
         /\ call.origin.signed
         /\ ~public_try_from(call.public_key)
         /\ did_id_from_public_key(call.public_key) \notin DOMAIN pre.DidRecords ) =>
           result = "InvalidPublicKey"
    /\ ( /\ OnStoredDid
         /\ VerifiesUnderLiveKey
         /\ ~TargetBefore.deactivated
         /\ \/ call.cmd = "add_key" /\ ~public_try_from(call.public_key)
            \/ call.cmd = "rotate_key" /\ ~public_try_from(call.new_public_key) ) =>
           result = "InvalidPublicKey"
    /\ (OnStoredDid /\ call.cmd = "rotate_key" /\ result = "Ok") =>
           can_authorize(DidRecords[TargetId])

\* The only key of a DID is rotated to bytes that are no ML-DSA-44 public key: the
\* call succeeds and the DID, not deactivated, holds no key that can authorize.
C27_Witness ==
    /\ OnStoredDid
    /\ call.cmd = "rotate_key"
    /\ result = "Ok"
    /\ Len(TargetBefore.keys) = 1
    /\ ~public_try_from(call.new_public_key)
    /\ ~can_authorize(DidRecords[TargetId])
    /\ ~DidRecords[TargetId].deactivated

\* The returned call is a create_status_list from a signed origin with a nonce of
\* at least MIN_LIST_NONCE_BYTES bytes.
CreatesList ==
    /\ Returned
    /\ call.cmd = "create_status_list"
    /\ call.origin.signed
    /\ Len(call.list_nonce) >= MIN_LIST_NONCE_BYTES

\* The lists stored at call start that were created for another issuer or with
\* another nonce than those of the returned call.
ListsOfOtherPairs ==
    {id \in DOMAIN pre.StatusLists :
        <<pre.StatusLists[id].issuer_did, pre.StatusLists[id].list_nonce>>
            # <<call.issuer_did, call.list_nonce>>}

(***************************************************************************)
(* C28.  Status-list ids separate issuers: a create_status_list whose      *)
(* (issuer_did, list_nonce), with a nonce of at least 16 bytes, differs in *)
(* issuer or in nonce from the pair of every list created before addresses *)
(* none of those lists: it does not fail with StatusListAlreadyExists and  *)
(* the list it addresses is not one owned by another issuer.               *)
(***************************************************************************)
C28_ListIdsSeparateIssuers ==
    CreatesList =>
        /\ status_list_id_from_parts(call.issuer_did, call.list_nonce)
               \notin ListsOfOtherPairs
        /\ ListsOfOtherPairs = DOMAIN pre.StatusLists =>
               result # "StatusListAlreadyExists"
        /\ LET id == status_list_id_from_parts(call.issuer_did, call.list_nonce) IN
           id \in DOMAIN StatusLists =>
               StatusLists[id].issuer_did = call.issuer_did

\* A list was created for one issuer; the creation of a list for another issuer,
\* with another nonce, is refused as a list that already exists, and the list it
\* addresses belongs to the first issuer.
C28_Witness ==
    /\ CreatesList
    /\ result = "StatusListAlreadyExists"
    /\ LET id == status_list_id_from_parts(call.issuer_did, call.list_nonce) IN
       /\ StatusLists[id].issuer_did # call.issuer_did
       /\ StatusLists[id].list_nonce # call.list_nonce
       /\ status_list_material(StatusLists[id].issuer_did, StatusLists[id].list_nonce)
              = status_list_material(call.issuer_did, call.list_nonce)

\* The lengths of ListInputs a list with this bitmap can have been created with.
LengthsOf(bitmap) ==
    {list_length \in ListInputs.lengths :
        list_length + 7 <= U32_MAX /\ BytesFor(list_length) = Len(bitmap)}

(***************************************************************************)
(* C29.  A list created with length L has a bitmap of ceil(L / 8) bytes,   *)
(* and a set_status on it by its issuer is accepted exactly when           *)
(* status_index < 8 * ceil(L / 8), and fails with StatusIndexOutOfBounds   *)
(* otherwise: the padding indices L <= i < 8 * ceil(L / 8) are accepted,   *)
(* and a list created with L = 0 has an empty bitmap and refuses every     *)
(* index.                                                                  *)
(***************************************************************************)
C29_AcceptedIndices ==
    /\ ( /\ Returned
         /\ call.cmd = "create_status_list"
         /\ result = "Ok" ) =>
           Len(StatusLists[status_list_id_from_parts(call.issuer_did,
                                                     call.list_nonce)].bitmap)
               = BytesFor(call.list_length)
    /\ \A id \in DOMAIN StatusLists : LengthsOf(StatusLists[id].bitmap) # {}
    /\ (OnStoredList /\ call.issuer_did = ListBefore.issuer_did) =>
           \A list_length \in LengthsOf(ListBefore.bitmap) :
               /\ result =
                      IF call.status_index < 8 * BytesFor(list_length) THEN "Ok"
                      ELSE "StatusIndexOutOfBounds"
               /\ ( /\ list_length <= call.status_index
                    /\ call.status_index < 8 * BytesFor(list_length) ) =>
                      /\ result = "Ok"
                      /\ StatusBit(ListAfter.bitmap, call.status_index) = call.revoked
               /\ list_length = 0 =>
                      /\ ListBefore.bitmap = <<>>
                      /\ result = "StatusIndexOutOfBounds"

\* The issuer of a list created with length 9 sets status 10.
C29_Witness ==
    /\ OnStoredList
    /\ call.issuer_did = ListBefore.issuer_did
    /\ LengthsOf(ListBefore.bitmap) = {9}
    /\ call.status_index = 10
    /\ call.revoked
    /\ result = "Ok"
    /\ StatusBit(ListAfter.bitmap, 10)

ListCommands == {"create_status_list", "set_status"}
SchemaCommands == {"register_schema", "deprecate_schema"}

\* What a registry call from a signed origin returns, from its arguments and the
\* mapping of its own pallet at call start.
ResultFromOwnMapping ==
    CASE call.cmd = "create_status_list" ->
             IF Len(call.list_nonce) < MIN_LIST_NONCE_BYTES THEN "InvalidListNonce"
             ELSE IF status_list_id_from_parts(call.issuer_did, call.list_nonce)
                         \in DOMAIN pre.StatusLists
             THEN "StatusListAlreadyExists"
             ELSE IF call.list_length + 7 > U32_MAX THEN "StatusIndexOutOfBounds"
             ELSE "Ok"
      [] call.cmd = "set_status" ->
             LET id == decode_status_list_id(call.status_list_id) IN
             IF ~id.ok THEN "InvalidStatusListId"
             ELSE IF id.val \notin DOMAIN pre.StatusLists THEN "StatusListNotFound"
             ELSE IF pre.StatusLists[id.val].issuer_did # call.issuer_did
             THEN "IssuerMismatch"
             ELSE IF call.status_index >= 8 * Len(pre.StatusLists[id.val].bitmap)
             THEN "StatusIndexOutOfBounds"
             ELSE "Ok"
      [] call.cmd = "register_schema" ->
             IF schema_id_from_schema(call.schema_json) \in DOMAIN pre.Schemas
             THEN "SchemaAlreadyExists"
             ELSE "Ok"
      [] call.cmd = "deprecate_schema" ->
             LET id == decode_schema_id(call.schema_id) IN
             IF ~id.ok THEN "InvalidSchemaId"
             ELSE IF id.val \notin DOMAIN pre.Schemas THEN "SchemaNotFound"
             ELSE IF pre.Schemas[id.val].deprecated THEN "SchemaDeprecated"
             ELSE IF pre.Schemas[id.val].issuer_did # call.issuer_did
             THEN "IssuerMismatch"
             ELSE "Ok"

\* The DID the returned registry call names as issuer was, at call start, not
\* stored, or stored and deactivated, or stored with every key revoked.
IssuerNotStored ==
    LET id == decode_did_id(call.issuer_did) IN
    id.ok /\ id.val \notin DOMAIN pre.DidRecords
IssuerDeactivated ==
    LET id == decode_did_id(call.issuer_did) IN
    id.ok /\ id.val \in DOMAIN pre.DidRecords /\ pre.DidRecords[id.val].deactivated
IssuerWithoutKey ==
    LET id == decode_did_id(call.issuer_did) IN
    /\ id.ok
    /\ id.val \in DOMAIN pre.DidRecords
    /\ every_key_revoked(pre.DidRecords[id.val])

(***************************************************************************)
(* C30.  The three registries are independent.  What create_status_list,   *)
(* set_status, register_schema and deprecate_schema return is fixed by     *)
(* their arguments and the mapping of their own pallet, whatever           *)
(* DidRecords holds (the issuer's DID may be absent, deactivated or        *)
(* without a live key).  A DID command changes neither StatusLists nor     *)
(* Schemas, a list command neither DidRecords nor Schemas, a schema        *)
(* command neither DidRecords nor StatusLists.                             *)
(***************************************************************************)
C30_RegistriesIndependent ==
    /\ ( /\ Returned
         /\ call.cmd \in ListCommands \cup SchemaCommands
         /\ call.origin.signed ) =>
           result = ResultFromOwnMapping
    /\ (Returned /\ call.cmd \in DidCommands) =>
           StatusLists = pre.StatusLists /\ Schemas = pre.Schemas
    /\ (Returned /\ call.cmd \in ListCommands) =>
           DidRecords = pre.DidRecords /\ Schemas = pre.Schemas
    /\ (Returned /\ call.cmd \in SchemaCommands) =>
           DidRecords = pre.DidRecords /\ StatusLists = pre.StatusLists

\* A schema is registered for an issuer whose DID is stored and deactivated.
C30_Witness ==
    /\ Returned
    /\ call.cmd = "register_schema"
    /\ IssuerDeactivated
    /\ result = "Ok"
    /\ Schemas # pre.Schemas

KeyCommands == {"add_key", "revoke_key", "rotate_key", "update_roles"}
ServiceCommands == {"add_service", "remove_service"}
MetadataCommands == {"set_metadata", "remove_metadata"}

\* The DID a returned DID command is about: the one derived from the key for
\* create_did, the one named by did_id for the others.
CommandDid ==
    IF call.cmd = "create_did" THEN did_id_from_public_key(call.public_key)
    ELSE TargetId

\* The record of the target DID after the returned call.
TargetAfter == DidRecords[TargetId]

(***************************************************************************)
(* C31.  Per-command frame on a DID record.  A successful add_key,         *)
(* revoke_key, rotate_key or update_roles leaves services, metadata and    *)
(* deactivated as they were; a successful add_service or remove_service    *)
(* leaves keys, metadata and deactivated; a successful set_metadata or     *)
(* remove_metadata leaves keys, services and deactivated; a successful     *)
(* deactivate_did changes only deactivated and version; and every          *)
(* successful DID command, create_did included, leaves the record of every *)
(* other DID as it was and deposits exactly one event.                     *)
(***************************************************************************)
C31_CommandFrame ==
    /\ (OnStoredDid /\ result = "Ok" /\ call.cmd \in KeyCommands) =>
           /\ TargetAfter.services = TargetBefore.services
           /\ TargetAfter.metadata = TargetBefore.metadata
           /\ TargetAfter.deactivated = TargetBefore.deactivated
    /\ (OnStoredDid /\ result = "Ok" /\ call.cmd \in ServiceCommands) =>
           /\ TargetAfter.keys = TargetBefore.keys
           /\ TargetAfter.metadata = TargetBefore.metadata
           /\ TargetAfter.deactivated = TargetBefore.deactivated
    /\ (OnStoredDid /\ result = "Ok" /\ call.cmd \in MetadataCommands) =>
           /\ TargetAfter.keys = TargetBefore.keys
           /\ TargetAfter.services = TargetBefore.services
           /\ TargetAfter.deactivated = TargetBefore.deactivated
    /\ (OnStoredDid /\ result = "Ok" /\ call.cmd = "deactivate_did") =>
           /\ TargetAfter.deactivated
           /\ TargetAfter.keys = TargetBefore.keys
           /\ TargetAfter.services = TargetBefore.services
           /\ TargetAfter.metadata = TargetBefore.metadata
    /\ (Returned /\ call.cmd \in DidCommands /\ result = "Ok") =>
           /\ DOMAIN DidRecords = DOMAIN pre.DidRecords \cup {CommandDid}
           /\ \A did_id \in DOMAIN pre.DidRecords :
                  did_id # CommandDid => DidRecords[did_id] = pre.DidRecords[did_id]
           /\ Len(events) = Len(pre.events) + 1

\* A DID that holds a service is deactivated: the service stays in the record.
C31_Witness ==
    /\ OnStoredDid
    /\ call.cmd = "deactivate_did"
    /\ result = "Ok"
    /\ TargetBefore.services # <<>>
    /\ TargetAfter.services = TargetBefore.services
    /\ ~TargetBefore.deactivated
    /\ TargetAfter.deactivated

====
